---- MODULE Spec2Model ----
(***************************************************************************)
(* State-machine model of the sunflower-lanyard firmware: the application *)
(* controller (src/main.py: screens, navigation handlers, touch loop),    *)
(* the ambient sound classifier (src/mic_level.py) and the touch          *)
(* digitizer driver (src/xpt2046.py).                                      *)
(*                                                                         *)
(* Times are in milliseconds.  Relative RMS values are fixed-point, in    *)
(* thousandths (0.4 is 400, 0.003 is 3).  Python's None is the empty      *)
(* tuple, a present value v is <<v>>.  Python lists are 1-based sequences *)
(* here, so the code's lst[i] is lst[i + 1].                               *)
(***************************************************************************)
EXTENDS Integers, Sequences, FiniteSets, TLC

VARIABLES
    \* ---- navigation state of the controller (main.py globals)
    current_screen, menu_page, page_index, theme_index,
    comm_cat_name, comm_cards, comm_card_index,
    menu_buttons, settings_buttons, comm_menu_buttons,
    \* ---- ambient badge state (main.py globals)
    mic, mic_quiet, mic_rms, last_mic_poll, last_badge_draw, last_badge_state,
    \* ---- classifier object (MicLevel fields)
    ema_rms, quiet, quiet_start,
    \* ---- touch loop (main.py globals and the loop's position)
    pc, ticks, was_down, last_tap_ms,
    \* ---- what the latest step put on the panel and the console
    drawn, badge_drawn, spoken, fired,
    \* ---- what the loop's latest iteration did with an accepted tap, in order
    step_log,
    \* ---- history of the environment, for stating the claims
    touch_run, run_fires, run_rejected, tap_edge,
    prev_card, below_since, last_at_or_above, interrupted, prev_quiet,
    badge_reqs,
    \* ---- the drivers seen from the bus: the latest driver call, what it put
    \* ---- on the pins and the bus, what it returned, and the chip-select levels
    drv_op, drv_bus, drv_res, lcd_cs, tp_cs,
    \* ---- a Screen of the generic toolkit (ui.py): its buttons, their _pressed
    \* ---- latches, the latest handle_touch call and the buttons fired since
    \* ---- the latest finger-up call
    ui_buttons, ui_pressed, ui_call, ui_since_up

navVars   == <<current_screen, menu_page, page_index, theme_index,
               comm_cat_name, comm_cards, comm_card_index,
               menu_buttons, settings_buttons, comm_menu_buttons>>
badgeVars == <<mic, mic_quiet, mic_rms, last_mic_poll, last_badge_draw, last_badge_state>>
micVars   == <<ema_rms, quiet, quiet_start>>
loopVars  == <<pc, ticks, was_down, last_tap_ms>>
outVars   == <<drawn, badge_drawn, spoken, fired, step_log>>
histVars  == <<touch_run, run_fires, run_rejected, tap_edge,
               prev_card, below_since, last_at_or_above, interrupted, prev_quiet,
               badge_reqs>>
micHist   == <<below_since, last_at_or_above, interrupted, prev_quiet>>
drvVars   == <<drv_op, drv_bus, drv_res, lcd_cs, tp_cs>>
uiVars    == <<ui_buttons, ui_pressed, ui_call, ui_since_up>>
vars      == <<navVars, badgeVars, micVars, loopVars, outVars, histVars, drvVars, uiVars>>

None == <<>>
Some(v) == <<v>>

(***************************************************************************)
(* Calibration store (touch_cal.py) and screen geometry (main.py).         *)
(***************************************************************************)
RAW_X_LEFT  == 332
RAW_X_RIGHT == 1616
RAW_Y_TOP   == 284
RAW_Y_BOT   == 1576
W == 480
H == 320
SWAP_XY == TRUE
FLIP_X  == TRUE
FLIP_Y  == FALSE
P_MAX == 250

NAV_H   == 80
NAV_Y   == H - (NAV_H + 20)
NAV_X0  == 20
NAV_GAP == 12
NAV_W   == (W - 40 - 2 * NAV_GAP) \div 3

ACT_H   == 44
ACT_Y   == 48 + 8
ACT_X0  == 20
ACT_GAP == 12
ACT_W   == (W - 40 - ACT_GAP) \div 2

SCREEN_MENU      == "menu"
SCREEN_GROUND    == "grounding"
SCREEN_CONTACTS  == "contacts"
SCREEN_SETTINGS  == "settings"
SCREEN_COMM_MENU == "comm_menu"
SCREEN_COMM_CARD == "comm_card"
Screens == {SCREEN_MENU, SCREEN_GROUND, SCREEN_CONTACTS, SCREEN_SETTINGS,
            SCREEN_COMM_MENU, SCREEN_COMM_CARD}

(***************************************************************************)
(* Fixed content: themes, grounding pages, cards, categories, menu items. *)
(* A card is <<icon, phrase>>; colours are not modelled.                   *)
(***************************************************************************)
THEMES == <<"DARK (HC)", "LIGHT (HC)", "YELLOW (ACCESS)", "GREEN (ACCESS)", "AMBER (DARK)">>

GROUNDING_PAGES == <<"5-4-3-2-1 Senses", "Box Breathing (4-4-4-4)", "Feet + Body Scan">>

CAT_NEEDS == << <<"!", "I NEED HELP">>, <<"~", "PLEASE WAIT">>, <<"~", "I NEED SPACE">>,
                <<"~", "I NEED A BREAK">>, <<"~", "WATER PLEASE">>, <<"~", "HUNGRY">>,
                <<"~", "TIRED">>, <<"!", "I NEED TO GO HOME">> >>
CAT_SENSORY == << <<"!", "TOO LOUD">>, <<"!", "TOO MANY PEOPLE">>, <<"!", "TOO BRIGHT">>,
                  <<"~", "I NEED QUIET">>, <<"~", "I NEED DIM LIGHTS">> >>
CAT_RESPONSES == << <<"?", "YES">>, <<"?", "NO">>, <<"~", "MAYBE">>, <<"~", "I DON'T KNOW">>,
                    <<"~", "PLEASE TEXT ME">>, <<"~", "I CAN'T SPEAK RIGHT NOW">> >>
CAT_FEELINGS == << <<"*", "I FEEL OVERWHELMED">>, <<"*", "I FEEL SICK">>,
                   <<"*", "I FEEL ANXIOUS">>, <<"*", "I AM OKAY">> >>
FAV_CARDS == << <<"!", "PLEASE WAIT">>, <<"!", "I NEED SPACE">>, <<"!", "TOO LOUD">>,
                <<"!", "TOO MANY PEOPLE">>, <<"!", "I NEED TO GO HOME">>,
                <<"~", "WATER PLEASE">> >>

COMM_CATEGORIES == << [name |-> "FAVOURITES", cards |-> FAV_CARDS],
                      [name |-> "NEEDS",      cards |-> CAT_NEEDS],
                      [name |-> "SENSORY",    cards |-> CAT_SENSORY],
                      [name |-> "RESPONSES",  cards |-> CAT_RESPONSES],
                      [name |-> "FEELINGS",   cards |-> CAT_FEELINGS] >>

\* An action is a handler name plus the index a closure captured (0 if none).
Act(fn, idx) == [fn |-> fn, idx |-> idx]

MENU_ALL_ITEMS == << [label |-> "GROUNDING TECHNIQUES", fn |-> Act("show_grounding", 0)],
                     [label |-> "COMMUNICATION CARDS",  fn |-> Act("show_comm_menu", 0)],
                     [label |-> "CONTACT DETAILS",      fn |-> Act("show_contacts", 0)],
                     [label |-> "SETTINGS",             fn |-> Act("show_settings", 0)] >>
MENU_ITEMS_PER_PAGE == 2

(***************************************************************************)
(* Buttons (ui.py Button, main.py make_btn and the module-level buttons). *)
(***************************************************************************)
Button(x, y, w, h, label, on_press) ==
    [x |-> x, y |-> y, w |-> w, h |-> h, label |-> label, on_press |-> on_press]

contains(b, px, py) ==
    (b.x <= px /\ px < b.x + b.w) /\ (b.y <= py /\ py < b.y + b.h)

NavBtn(slot, label, on_press) ==
    Button(NAV_X0 + slot * (NAV_W + NAV_GAP), NAV_Y, NAV_W, NAV_H, label, on_press)

btn_ground_prev   == NavBtn(0, "PREV", Act("grounding_prev", 0))
btn_ground_menu   == NavBtn(1, "MENU", Act("show_menu", 0))
btn_ground_next   == NavBtn(2, "NEXT", Act("grounding_next", 0))
btn_contacts_menu == NavBtn(1, "MENU", Act("show_menu", 0))
btn_settings_menu == NavBtn(1, "MENU", Act("show_menu", 0))
btn_commmenu_menu == NavBtn(1, "MENU", Act("show_menu", 0))
btn_comm_prev     == NavBtn(0, "PREV", Act("comm_prev", 0))
btn_comm_cats     == NavBtn(1, "CATS", Act("show_comm_menu", 0))
btn_comm_next     == NavBtn(2, "NEXT", Act("comm_next", 0))
btn_comm_speak    == Button(ACT_X0, ACT_Y, ACT_W, ACT_H, "SPEAK", Act("speak", 0))
btn_comm_menu     == Button(ACT_X0 + ACT_W + ACT_GAP, ACT_Y, ACT_W, ACT_H, "MENU",
                            Act("show_menu", 0))
btn_menu_prev     == NavBtn(0, "PREV", Act("menu_prev", 0))
btn_menu_next     == NavBtn(2, "NEXT", Act("menu_next", 0))

Min(a, b) == IF a < b THEN a ELSE b
Max(a, b) == IF a > b THEN a ELSE b

menu_total_pages ==
    (Len(MENU_ALL_ITEMS) + MENU_ITEMS_PER_PAGE - 1) \div MENU_ITEMS_PER_PAGE

\* Mutant of build_menu_buttons: the page's first item is taken to be item p,
\* not item p * MENU_ITEMS_PER_PAGE.
build_menu_buttons_unscaled(p) ==
    LET X0     == 20
        TOP    == 60
        GAP    == 14
        BTN_W  == W - 2 * X0
        BTN_H0 == ((NAV_Y - 10 - TOP) - GAP) \div 2
        BTN_H  == IF BTN_H0 < 40 THEN 40 ELSE BTN_H0
        start  == p
        end    == Min(start + MENU_ITEMS_PER_PAGE, Len(MENU_ALL_ITEMS))
    IN  [k \in 1..Max(end - start, 0) |->
            Button(X0, TOP + (k - 1) * (BTN_H + GAP), BTN_W, BTN_H,
                   MENU_ALL_ITEMS[start + k].label, MENU_ALL_ITEMS[start + k].fn)]

\* build_menu_buttons for menu page p: items start..end-1 (0-based), top down.
build_menu_buttons(p) ==
    LET X0     == 20
        TOP    == 60
        BOTTOM == NAV_Y - 10
        AREA_H == BOTTOM - TOP
        GAP    == 14
        BTN_W  == W - 2 * X0
        BTN_H0 == (AREA_H - GAP) \div 2
        BTN_H  == IF BTN_H0 < 40 THEN 40 ELSE BTN_H0
        start  == p * MENU_ITEMS_PER_PAGE
        end    == Min(start + MENU_ITEMS_PER_PAGE, Len(MENU_ALL_ITEMS))
    IN  [k \in 1..Max(end - start, 0) |->
            Button(X0, TOP + (k - 1) * (BTN_H + GAP), BTN_W, BTN_H,
                   MENU_ALL_ITEMS[start + k].label, MENU_ALL_ITEMS[start + k].fn)]

\* Mutant of GridBtn: the rows are pitched closer than a button is high.
GridBtn_rows_too_close(i, n, label, on_press) ==
    LET rows   == (n + 1) \div 2
        gapy   == 12
        bw     == ((W - 40) - 12) \div 2
        bh     == ((H - 70 - (NAV_H + 30)) - (rows - 1) * gapy) \div rows
    IN  Button(20 + (i % 2) * (bw + 12), 70 + (i \div 2) * (bh - gapy), bw, bh,
               label, on_press)

\* The 2-column grid shared by show_settings and build_comm_menu_buttons:
\* the button of 0-based position i among n.
GridBtn(i, n, label, on_press) ==
    LET cols   == 2
        rows   == (n + 1) \div 2
        grid_x == 20
        grid_y == 70
        grid_w == W - 40
        grid_h == H - 70 - (NAV_H + 30)
        gapx   == 12
        gapy   == 12
        bw     == (grid_w - gapx) \div 2
        bh     == (grid_h - (rows - 1) * gapy) \div rows
        c      == i % cols
        r      == i \div cols
    IN  Button(grid_x + c * (bw + gapx), grid_y + r * (bh + gapy), bw, bh, label, on_press)

\* Mutant of build_settings_buttons: every closure sees the loop's last index.
build_settings_buttons_late_bound ==
    [k \in 1..Len(THEMES) |->
        GridBtn(k - 1, Len(THEMES), THEMES[k], Act("apply_theme", Len(THEMES) - 1))]

\* show_settings' loop: one button per theme, make_apply(idx=i).
build_settings_buttons ==
    [k \in 1..Len(THEMES) |->
        GridBtn(k - 1, Len(THEMES), THEMES[k], Act("apply_theme", k - 1))]

\* build_comm_menu_buttons: one button per category, make_open(idx=i).
build_comm_menu_buttons ==
    [k \in 1..Len(COMM_CATEGORIES) |->
        GridBtn(k - 1, Len(COMM_CATEGORIES), COMM_CATEGORIES[k].name,
                Act("open_category", k - 1))]

\* Mutant of screen_buttons: Contacts has no button.
screen_buttons_contacts_bare ==
    CASE current_screen = SCREEN_MENU ->
            menu_buttons \o (IF menu_total_pages > 1
                             THEN <<btn_menu_prev, btn_menu_next>> ELSE <<>>)
      [] current_screen = SCREEN_GROUND ->
            <<btn_ground_prev, btn_ground_menu, btn_ground_next>>
      [] current_screen = SCREEN_CONTACTS -> <<>>
      [] current_screen = SCREEN_SETTINGS -> settings_buttons \o <<btn_settings_menu>>
      [] current_screen = SCREEN_COMM_MENU -> comm_menu_buttons \o <<btn_commmenu_menu>>
      [] current_screen = SCREEN_COMM_CARD ->
            <<btn_comm_speak, btn_comm_menu, btn_comm_prev, btn_comm_cats, btn_comm_next>>
      [] OTHER -> <<>>

screen_buttons ==
    CASE current_screen = SCREEN_MENU ->
            menu_buttons \o (IF menu_total_pages > 1
                             THEN <<btn_menu_prev, btn_menu_next>> ELSE <<>>)
      [] current_screen = SCREEN_GROUND ->
            <<btn_ground_prev, btn_ground_menu, btn_ground_next>>
      [] current_screen = SCREEN_CONTACTS -> <<btn_contacts_menu>>
      [] current_screen = SCREEN_SETTINGS -> settings_buttons \o <<btn_settings_menu>>
      [] current_screen = SCREEN_COMM_MENU -> comm_menu_buttons \o <<btn_commmenu_menu>>
      [] current_screen = SCREEN_COMM_CARD ->
            <<btn_comm_speak, btn_comm_menu, btn_comm_prev, btn_comm_cats, btn_comm_next>>
      [] OTHER -> <<>>

(***************************************************************************)
(* Clock.  time.ticks_diff(a, b) is a - b: the model's runs are far       *)
(* shorter than the wrap-around period of ticks_ms.                        *)
(***************************************************************************)
ticks_diff(a, b) == a - b

MIC_POLL_MS       == 220
MIC_DRAW_THROTTLE == 250

(***************************************************************************)
(* draw_mic_badge(force) at clock reading t, as a function of the badge   *)
(* state b = [draw, state, drew] (the globals _last_badge_draw and        *)
(* _last_badge_state, and the badge draws made so far in this step),      *)
(* with present = (mic is not None) and micq = mic_quiet.                  *)
(***************************************************************************)
\* Mutant of draw_mic_badge: the throttle applies to forced requests too.
draw_mic_badge_throttles_forced(present, micq, b, force, t) ==
    IF ~present THEN b
    ELSE IF ticks_diff(t, b.draw) < MIC_DRAW_THROTTLE THEN b
    ELSE IF (~force) /\ Some(micq) = b.state THEN [b EXCEPT !.draw = t]
    ELSE [draw  |-> t,
          state |-> Some(micq),
          drew  |-> Append(b.drew, [force |-> force, quiet |-> micq])]

\* Mutant of draw_mic_badge: a throttled request restarts the throttle window.
draw_mic_badge_throttle_restarts(present, micq, b, force, t) ==
    IF ~present THEN b
    ELSE IF (~force) /\ ticks_diff(t, b.draw) < MIC_DRAW_THROTTLE THEN [b EXCEPT !.draw = t]
    ELSE IF (~force) /\ Some(micq) = b.state THEN [b EXCEPT !.draw = t]
    ELSE [draw  |-> t,
          state |-> Some(micq),
          drew  |-> Append(b.drew, [force |-> force, quiet |-> micq])]

draw_mic_badge(present, micq, b, force, t) ==
    IF ~present THEN b
    ELSE IF (~force) /\ ticks_diff(t, b.draw) < MIC_DRAW_THROTTLE THEN b
    ELSE IF (~force) /\ Some(micq) = b.state THEN [b EXCEPT !.draw = t]
    ELSE [draw  |-> t,
          state |-> Some(micq),
          drew  |-> Append(b.drew, [force |-> force, quiet |-> micq])]

SetBadge(b) ==
    /\ last_badge_draw' = b.draw
    /\ last_badge_state' = b.state
    /\ badge_drawn' = b.drew

\* The render context of a handler: the clock reading while it renders, the
\* value of mic_quiet it sees, and the badge state it starts from.
Ctx(t, micq, b) == [t |-> t, micq |-> micq, badge |-> b]

\* A full-screen render (fill, draw_title_bar and so the forced badge redraw,
\* content, buttons): recorded as what was drawn.
Render(c, screen, content, buttons) ==
    /\ drawn' = <<[screen |-> screen, content |-> content, buttons |-> buttons]>>
    /\ SetBadge(draw_mic_badge(mic, c.micq, c.badge, TRUE, c.t))

NoRender(c) ==
    /\ drawn' = <<>>
    /\ SetBadge(c.badge)

(***************************************************************************)
(* Screens and their handlers (main.py).  Each handler is an action on    *)
(* the navigation state, the badge state and the outputs.                  *)
(***************************************************************************)
draw_grounding(c, p) ==
    Render(c, SCREEN_GROUND, <<p, GROUNDING_PAGES[p + 1]>>,
           <<btn_ground_prev, btn_ground_menu, btn_ground_next>>)

\* Mutant of show_grounding: entering Grounding goes back to the first page.
show_grounding_from_first(c) ==
    /\ current_screen' = SCREEN_GROUND
    /\ page_index' = 0
    /\ draw_grounding(c, 0)
    /\ spoken' = None
    /\ UNCHANGED <<menu_page, theme_index, comm_cat_name, comm_cards,
                   comm_card_index, menu_buttons, settings_buttons, comm_menu_buttons>>

show_grounding(c) ==
    /\ current_screen' = SCREEN_GROUND
    /\ draw_grounding(c, page_index)
    /\ spoken' = None
    /\ UNCHANGED <<menu_page, page_index, theme_index, comm_cat_name, comm_cards,
                   comm_card_index, menu_buttons, settings_buttons, comm_menu_buttons>>

grounding_prev(c) ==
    /\ IF page_index > 0
       THEN page_index' = page_index - 1 /\ draw_grounding(c, page_index - 1)
       ELSE page_index' = page_index /\ NoRender(c)
    /\ spoken' = None
    /\ UNCHANGED <<current_screen, menu_page, theme_index, comm_cat_name, comm_cards,
                   comm_card_index, menu_buttons, settings_buttons, comm_menu_buttons>>

grounding_next(c) ==
    /\ IF page_index < Len(GROUNDING_PAGES) - 1
       THEN page_index' = page_index + 1 /\ draw_grounding(c, page_index + 1)
       ELSE page_index' = page_index /\ NoRender(c)
    /\ spoken' = None
    /\ UNCHANGED <<current_screen, menu_page, theme_index, comm_cat_name, comm_cards,
                   comm_card_index, menu_buttons, settings_buttons, comm_menu_buttons>>

show_contacts(c) ==
    /\ current_screen' = SCREEN_CONTACTS
    /\ Render(c, SCREEN_CONTACTS, <<>>, <<btn_contacts_menu>>)
    /\ spoken' = None
    /\ UNCHANGED <<menu_page, page_index, theme_index, comm_cat_name, comm_cards,
                   comm_card_index, menu_buttons, settings_buttons, comm_menu_buttons>>

\* show_settings with the theme index th in force while it renders.
show_settings_with(c, th) ==
    /\ current_screen' = SCREEN_SETTINGS
    /\ settings_buttons' = build_settings_buttons
    /\ Render(c, SCREEN_SETTINGS, <<th>>, build_settings_buttons \o <<btn_settings_menu>>)
    /\ spoken' = None
    /\ UNCHANGED <<menu_page, page_index, comm_cat_name, comm_cards,
                   comm_card_index, menu_buttons, comm_menu_buttons>>

show_settings(c) ==
    /\ theme_index' = theme_index
    /\ show_settings_with(c, theme_index)

\* Mutant of apply_theme: the index is set but Settings is not rendered again.
apply_theme_no_render(c, idx) ==
    /\ theme_index' = idx
    /\ NoRender(c)
    /\ spoken' = None
    /\ UNCHANGED <<current_screen, menu_page, page_index, comm_cat_name, comm_cards,
                   comm_card_index, menu_buttons, settings_buttons, comm_menu_buttons>>

apply_theme(c, idx) ==
    /\ theme_index' = idx
    /\ show_settings_with(c, idx)

speak(c) ==
    /\ spoken' = Some(comm_cards[comm_card_index + 1][2])
    /\ NoRender(c)
    /\ UNCHANGED navVars

draw_comm_card(c, name, cards, i) ==
    Render(c, SCREEN_COMM_CARD, <<name, i, Len(cards), cards[i + 1]>>,
           <<btn_comm_speak, btn_comm_menu, btn_comm_prev, btn_comm_cats, btn_comm_next>>)

\* show_comm_card with the category and index just assigned by the caller.
show_comm_card(c, name, cards, i) ==
    /\ current_screen' = SCREEN_COMM_CARD
    /\ draw_comm_card(c, name, cards, i)

\* Mutant of open_category: comm_cards is not rebound (it is missing from the
\* global statement), so the previous category's cards stay.
open_category_keeps_cards(c, idx) ==
    /\ comm_cat_name' = COMM_CATEGORIES[idx + 1].name
    /\ comm_cards' = comm_cards
    /\ comm_card_index' = 0
    /\ show_comm_card(c, COMM_CATEGORIES[idx + 1].name, comm_cards, 0)
    /\ spoken' = None
    /\ UNCHANGED <<menu_page, page_index, theme_index, menu_buttons, settings_buttons,
                   comm_menu_buttons>>

open_category(c, idx) ==
    /\ comm_cat_name' = COMM_CATEGORIES[idx + 1].name
    /\ comm_cards' = COMM_CATEGORIES[idx + 1].cards
    /\ comm_card_index' = 0
    /\ show_comm_card(c, COMM_CATEGORIES[idx + 1].name, COMM_CATEGORIES[idx + 1].cards, 0)
    /\ spoken' = None
    /\ UNCHANGED <<menu_page, page_index, theme_index, menu_buttons, settings_buttons,
                   comm_menu_buttons>>

show_comm_menu(c) ==
    /\ current_screen' = SCREEN_COMM_MENU
    /\ comm_menu_buttons' = build_comm_menu_buttons
    /\ Render(c, SCREEN_COMM_MENU, <<>>, build_comm_menu_buttons \o <<btn_commmenu_menu>>)
    /\ spoken' = None
    /\ UNCHANGED <<menu_page, page_index, theme_index, comm_cat_name, comm_cards,
                   comm_card_index, menu_buttons, settings_buttons>>

\* Mutant of comm_prev: Prev on the first card wraps to the last one.
comm_prev_wraps(c) ==
    /\ LET i == IF comm_card_index > 0 THEN comm_card_index - 1 ELSE Len(comm_cards) - 1
       IN  comm_card_index' = i /\ draw_comm_card(c, comm_cat_name, comm_cards, i)
    /\ spoken' = None
    /\ UNCHANGED <<current_screen, menu_page, page_index, theme_index, comm_cat_name,
                   comm_cards, menu_buttons, settings_buttons, comm_menu_buttons>>

comm_prev(c) ==
    /\ IF comm_card_index > 0
       THEN /\ comm_card_index' = comm_card_index - 1
            /\ draw_comm_card(c, comm_cat_name, comm_cards, comm_card_index - 1)
       ELSE comm_card_index' = comm_card_index /\ NoRender(c)
    /\ spoken' = None
    /\ UNCHANGED <<current_screen, menu_page, page_index, theme_index, comm_cat_name,
                   comm_cards, menu_buttons, settings_buttons, comm_menu_buttons>>

comm_next(c) ==
    /\ IF comm_card_index < Len(comm_cards) - 1
       THEN /\ comm_card_index' = comm_card_index + 1
            /\ draw_comm_card(c, comm_cat_name, comm_cards, comm_card_index + 1)
       ELSE comm_card_index' = comm_card_index /\ NoRender(c)
    /\ spoken' = None
    /\ UNCHANGED <<current_screen, menu_page, page_index, theme_index, comm_cat_name,
                   comm_cards, menu_buttons, settings_buttons, comm_menu_buttons>>

\* draw_menu with menu page p in force: rebuilds the page's buttons.
draw_menu(c, p) ==
    /\ menu_buttons' = build_menu_buttons(p)
    /\ Render(c, SCREEN_MENU, <<p, menu_total_pages>>,
              build_menu_buttons(p) \o (IF menu_total_pages > 1
                                        THEN <<btn_menu_prev, btn_menu_next>> ELSE <<>>))

show_menu(c) ==
    /\ current_screen' = SCREEN_MENU
    /\ draw_menu(c, menu_page)
    /\ spoken' = None
    /\ UNCHANGED <<menu_page, page_index, theme_index, comm_cat_name, comm_cards,
                   comm_card_index, settings_buttons, comm_menu_buttons>>

menu_prev(c) ==
    /\ IF menu_page > 0
       THEN menu_page' = menu_page - 1 /\ draw_menu(c, menu_page - 1)
       ELSE menu_page' = menu_page /\ menu_buttons' = menu_buttons /\ NoRender(c)
    /\ spoken' = None
    /\ UNCHANGED <<current_screen, page_index, theme_index, comm_cat_name, comm_cards,
                   comm_card_index, settings_buttons, comm_menu_buttons>>

\* Mutant of menu_next: no test against the last page.
menu_next_unclamped(c) ==
    /\ menu_page' = menu_page + 1
    /\ draw_menu(c, menu_page + 1)
    /\ spoken' = None
    /\ UNCHANGED <<current_screen, page_index, theme_index, comm_cat_name, comm_cards,
                   comm_card_index, settings_buttons, comm_menu_buttons>>

menu_next(c) ==
    /\ IF menu_page < menu_total_pages - 1
       THEN menu_page' = menu_page + 1 /\ draw_menu(c, menu_page + 1)
       ELSE menu_page' = menu_page /\ menu_buttons' = menu_buttons /\ NoRender(c)
    /\ spoken' = None
    /\ UNCHANGED <<current_screen, page_index, theme_index, comm_cat_name, comm_cards,
                   comm_card_index, settings_buttons, comm_menu_buttons>>

\* b.on_press(): the handler a button's action names.
on_press(a, c) ==
    CASE a.fn = "show_menu"      -> show_menu(c)
      [] a.fn = "menu_prev"      -> menu_prev(c)
      [] a.fn = "menu_next"      -> menu_next(c)
      [] a.fn = "show_grounding" -> show_grounding(c)
      [] a.fn = "grounding_prev" -> grounding_prev(c)
      [] a.fn = "grounding_next" -> grounding_next(c)
      [] a.fn = "show_contacts"  -> show_contacts(c)
      [] a.fn = "show_settings"  -> show_settings(c)
      [] a.fn = "apply_theme"    -> apply_theme(c, a.idx)
      [] a.fn = "show_comm_menu" -> show_comm_menu(c)
      [] a.fn = "open_category"  -> open_category(c, a.idx)
      [] a.fn = "comm_prev"      -> comm_prev(c)
      [] a.fn = "comm_next"      -> comm_next(c)
      [] a.fn = "speak"          -> speak(c)

(***************************************************************************)
(* Ambient sound classifier (mic_level.py), constructed by main.py with   *)
(* the MIC_* parameters.  The smoothing factor is in hundredths.  The     *)
(* smoothed value is kept in thousandths, the division rounding down.     *)
(***************************************************************************)
MIC_SAMPLE_COUNT  == 180
MIC_SAMPLE_US     == 200
MIC_EMA_ALPHA     == 15
MIC_QUIET_THRESH  == 400
MIC_HYSTERESIS    == 3
MIC_QUIET_HOLD_MS == 1500

\* MicLevel.__init__: the fields the state machine uses.
MicLevel_init == [ema |-> 0, quiet |-> FALSE, quiet_start |-> None]

\* The exponential moving average of update().
ema_step(ema, raw_rms) ==
    (MIC_EMA_ALPHA * raw_rms + (100 - MIC_EMA_ALPHA) * ema) \div 100

\* Mutant of hold_elapsed: the dwell must be exceeded, not reached.
hold_elapsed_strict(now, start) == ticks_diff(now, start) > MIC_QUIET_HOLD_MS

\* Entering quiet: the dwell test of update().
hold_elapsed(now, start) == ticks_diff(now, start) >= MIC_QUIET_HOLD_MS

\* Mutant of above_exit: reaching threshold + hysteresis is enough to leave.
above_exit_inclusive(ema) == ema >= MIC_QUIET_THRESH + MIC_HYSTERESIS

\* Leaving quiet: the exit test of update().
above_exit(ema) == ema > MIC_QUIET_THRESH + MIC_HYSTERESIS

\* Mutant of candidate_reset: the timer is kept (paused), not cleared.
candidate_kept(start) == start

\* What update() does to quiet_start when the smoothed value is not below
\* the entry threshold while loud.
candidate_reset(start) == None

\* MicLevel.update() on the classifier m = [ema, quiet, quiet_start], with
\* raw_rms the result of _read_rms() and now the clock reading it takes.
update(m, raw_rms, now) ==
    LET ema == ema_step(m.ema, raw_rms)
        enter_quiet_at == MIC_QUIET_THRESH
    IN  IF ~m.quiet
        THEN IF ema < enter_quiet_at
             THEN IF m.quiet_start = None
                  THEN [ema |-> ema, quiet |-> FALSE, quiet_start |-> Some(now)]
                  ELSE IF hold_elapsed(now, m.quiet_start[1])
                       THEN [ema |-> ema, quiet |-> TRUE, quiet_start |-> m.quiet_start]
                       ELSE [ema |-> ema, quiet |-> FALSE, quiet_start |-> m.quiet_start]
             ELSE [ema |-> ema, quiet |-> FALSE, quiet_start |-> candidate_reset(m.quiet_start)]
        ELSE IF above_exit(ema)
             THEN [ema |-> ema, quiet |-> FALSE, quiet_start |-> None]
             ELSE [ema |-> ema, quiet |-> TRUE, quiet_start |-> m.quiet_start]

Classifier == [ema |-> ema_rms, quiet |-> quiet, quiet_start |-> quiet_start]

SetClassifier(m) ==
    /\ ema_rms' = m.ema
    /\ quiet' = m.quiet
    /\ quiet_start' = m.quiet_start

\* History kept for the claims: since when the smoothed value has been below the
\* entry threshold without interruption, when it was last at or above it,
\* whether an update ever cleared a running candidate timer, and the
\* classification before the latest update.
SetMicHistory(m, now) ==
    /\ below_since' = IF m.ema < MIC_QUIET_THRESH
                      THEN (IF below_since = None THEN Some(now) ELSE below_since)
                      ELSE None
    /\ last_at_or_above' = IF m.ema >= MIC_QUIET_THRESH THEN Some(now) ELSE last_at_or_above
    /\ interrupted' = (interrupted \/ (quiet_start # None /\ ~quiet /\ ~m.quiet
                                        /\ m.quiet_start = None))
    /\ prev_quiet' = Some(quiet)

(***************************************************************************)
(* Display driver (ili9486.py).  A driver call is modelled by the events  *)
(* it puts on the pins and the bus, in order: a pin being configured with *)
(* level n ("pin"), a chip-select, data/command or reset line being set   *)
(* to level n, a sleep of n ms, or one SPI write: of the bytes data       *)
(* repeated n times, or, where data is empty, of n bytes of buffer        *)
(* content.                                                                *)
(***************************************************************************)
Ev(kind, dev, n, data) == <<kind, dev, n, data>>
EvKind(e) == e[1]
EvDev(e)  == e[2]
EvN(e)    == e[3]
EvData(e) == e[4]

\* The panel as main.py constructs the driver (width=W, height=H).
X_OFFSET == 0
Y_OFFSET == 0
MADCTL   == 72
BGR      == TRUE

write_cmd(cmd) ==
    <<Ev("cs", "lcd", 0, <<>>), Ev("dc", "lcd", 0, <<>>),
      Ev("spi", "lcd", 1, <<cmd % 256>>), Ev("cs", "lcd", 1, <<>>)>>

\* Mutant of write_data: the data/command line is left as it was.
write_data_keeps_dc(data) ==
    <<Ev("cs", "lcd", 0, <<>>), Ev("spi", "lcd", 1, data), Ev("cs", "lcd", 1, <<>>)>>

write_data(data) ==
    <<Ev("cs", "lcd", 0, <<>>), Ev("dc", "lcd", 1, <<>>),
      Ev("spi", "lcd", 1, data), Ev("cs", "lcd", 1, <<>>)>>

_set_window(x0, y0, x1, y1) ==
    LET a0 == x0 + X_OFFSET
        a1 == x1 + X_OFFSET
        b0 == y0 + Y_OFFSET
        b1 == y1 + Y_OFFSET
    IN  write_cmd(42) \o write_data(<<a0 \div 256, a0 % 256, a1 \div 256, a1 % 256>>)
        \o write_cmd(43) \o write_data(<<b0 \div 256, b0 % 256, b1 \div 256, b1 % 256>>)
        \o write_cmd(44)

\* ILI9486.reset and init_display.
reset ==
    <<Ev("rst", "lcd", 1, <<>>), Ev("sleep", "lcd", 50, <<>>),
      Ev("rst", "lcd", 0, <<>>), Ev("sleep", "lcd", 50, <<>>),
      Ev("rst", "lcd", 1, <<>>), Ev("sleep", "lcd", 120, <<>>)>>

init_display(madctl) ==
    write_cmd(1) \o <<Ev("sleep", "lcd", 150, <<>>)>>
    \o write_cmd(17) \o <<Ev("sleep", "lcd", 120, <<>>)>>
    \o write_cmd(58) \o write_data(<<85>>)
    \o write_cmd(54) \o write_data(<<madctl>>)
    \o write_cmd(41) \o <<Ev("sleep", "lcd", 50, <<>>)>>

\* Mutant of madctl_byte: bit 3 is set for BGR but never cleared.
madctl_byte_never_clears(madctl, bgr) ==
    LET bit3 == (madctl \div 8) % 2 = 1
        m    == IF bgr THEN (IF bit3 THEN madctl ELSE madctl + 8) ELSE madctl
    IN  m % 256

\* The MADCTL byte __init__ stores: bit 3 set for BGR, cleared otherwise,
\* masked to 8 bits.
madctl_byte(madctl, bgr) ==
    LET bit3 == (madctl \div 8) % 2 = 1
        m    == IF bgr THEN (IF bit3 THEN madctl ELSE madctl + 8)
                ELSE (IF bit3 THEN madctl - 8 ELSE madctl)
    IN  m % 256

\* ILI9486.__init__: what constructing the driver puts on the pins and bus.
ILI9486_init(madctl, bgr) ==
    <<Ev("pin", "lcd_cs", 1, <<>>), Ev("pin", "lcd_dc", 0, <<>>),
      Ev("pin", "lcd_rst", 1, <<>>)>>
    \o reset \o init_display(madctl_byte(madctl, bgr))

\* Mutant of clip_rect: a negative origin is moved to 0 but the size is kept.
clip_rect_keeps_size(x, y, w, h) ==
    IF w <= 0 \/ h <= 0 THEN None
    ELSE LET x1 == IF x < 0 THEN 0 ELSE x
             y1 == IF y < 0 THEN 0 ELSE y
             w2 == IF x1 + w > W THEN W - x1 ELSE w
             h2 == IF y1 + h > H THEN H - y1 ELSE h
         IN  IF w2 <= 0 \/ h2 <= 0 THEN None ELSE Some(<<x1, y1, w2, h2>>)

\* The clipping of fill_rect: the rectangle it goes on with, None when it
\* returns without doing anything.
clip_rect(x, y, w, h) ==
    IF w <= 0 \/ h <= 0 THEN None
    ELSE LET w1 == IF x < 0 THEN w + x ELSE w
             x1 == IF x < 0 THEN 0 ELSE x
             h1 == IF y < 0 THEN h + y ELSE h
             y1 == IF y < 0 THEN 0 ELSE y
             w2 == IF x1 + w1 > W THEN W - x1 ELSE w1
             h2 == IF y1 + h1 > H THEN H - y1 ELSE h1
         IN  IF w2 <= 0 \/ h2 <= 0 THEN None ELSE Some(<<x1, y1, w2, h2>>)

\* Mutant of pixel_stream: the last, partial chunk is not sent.
pixel_stream_drops_remainder(total_pixels, color565) ==
    LET hi == (color565 \div 256) % 256
        lo == color565 % 256
        chunk_pixels == 1024
        full_chunks  == total_pixels \div chunk_pixels
    IN  <<Ev("cs", "lcd", 0, <<>>), Ev("dc", "lcd", 1, <<>>)>>
        \o [k \in 1..full_chunks |-> Ev("spi", "lcd", chunk_pixels, <<hi, lo>>)]
        \o <<Ev("cs", "lcd", 1, <<>>)>>

\* The pixel stream of fill_rect: one chip-select frame holding full chunks
\* of chunk_pixels pixels and a last partial chunk, every pixel the two bytes
\* hi, lo.
pixel_stream(total_pixels, color565) ==
    LET hi == (color565 \div 256) % 256
        lo == color565 % 256
        chunk_pixels == 1024
        full_chunks  == total_pixels \div chunk_pixels
        remainder    == total_pixels % chunk_pixels
    IN  <<Ev("cs", "lcd", 0, <<>>), Ev("dc", "lcd", 1, <<>>)>>
        \o [k \in 1..full_chunks |-> Ev("spi", "lcd", chunk_pixels, <<hi, lo>>)]
        \o (IF remainder # 0 THEN <<Ev("spi", "lcd", remainder, <<hi, lo>>)>> ELSE <<>>)
        \o <<Ev("cs", "lcd", 1, <<>>)>>

fill_rect(x, y, w, h, color565) ==
    LET r == clip_rect(x, y, w, h)
    IN  IF r = None THEN <<>>
        ELSE _set_window(r[1][1], r[1][2], r[1][1] + r[1][3] - 1, r[1][2] + r[1][4] - 1)
             \o pixel_stream(r[1][3] * r[1][4], color565)

draw_pixel(x, y, color565) ==
    IF ~(0 <= x /\ x < W /\ 0 <= y /\ y < H) THEN <<>>
    ELSE _set_window(x, y, x, y)
         \o write_data(<<(color565 \div 256) % 256, color565 % 256>>)

\* Mutant of blit_buffer: only the origin is tested, not the far edges.
blit_buffer_origin_only(buflen, x, y, w, h, source_little_endian) ==
    IF w <= 0 \/ h <= 0 THEN <<>>
    ELSE IF x < 0 \/ y < 0 THEN <<>>
    ELSE _set_window(x, y, x + w - 1, y + h - 1)
         \o <<Ev("cs", "lcd", 0, <<>>), Ev("dc", "lcd", 1, <<>>),
              Ev("spi", "lcd", buflen, <<>>), Ev("cs", "lcd", 1, <<>>)>>

\* Mutant of blit_buffer: the big-endian path returns with the chip-select low.
blit_buffer_leaves_cs_low(buflen, x, y, w, h, source_little_endian) ==
    IF w <= 0 \/ h <= 0 THEN <<>>
    ELSE IF x < 0 \/ y < 0 \/ x + w > W \/ y + h > H THEN <<>>
    ELSE LET chunk  == 2048
             chunks == (buflen + chunk - 1) \div chunk
         IN  _set_window(x, y, x + w - 1, y + h - 1)
             \o <<Ev("cs", "lcd", 0, <<>>), Ev("dc", "lcd", 1, <<>>)>>
             \o (IF ~source_little_endian
                 THEN <<Ev("spi", "lcd", buflen, <<>>)>>
                 ELSE [k \in 1..chunks |->
                          Ev("spi", "lcd", Min(chunk, buflen - (k - 1) * chunk), <<>>)]
                      \o <<Ev("cs", "lcd", 1, <<>>)>>)

\* blit_buffer for a buffer of buflen bytes (2 per pixel): refused outside the
\* panel; a big-endian source goes out in one write, a little-endian one
\* byte-swapped in chunks of 2048 bytes.
blit_buffer(buflen, x, y, w, h, source_little_endian) ==
    IF w <= 0 \/ h <= 0 THEN <<>>
    ELSE IF x < 0 \/ y < 0 \/ x + w > W \/ y + h > H THEN <<>>
    ELSE LET chunk  == 2048
             chunks == (buflen + chunk - 1) \div chunk
         IN  _set_window(x, y, x + w - 1, y + h - 1)
             \o <<Ev("cs", "lcd", 0, <<>>), Ev("dc", "lcd", 1, <<>>)>>
             \o (IF ~source_little_endian
                 THEN <<Ev("spi", "lcd", buflen, <<>>), Ev("cs", "lcd", 1, <<>>)>>
                 ELSE [k \in 1..chunks |->
                          Ev("spi", "lcd", Min(chunk, buflen - (k - 1) * chunk), <<>>)]
                      \o <<Ev("cs", "lcd", 1, <<>>)>>)

\* ILI9486.text for a string of len characters in the 8x8 font.
text(len, x, y, scale) ==
    IF len = 0 THEN <<>>
    ELSE LET bw == 8 * len
             bh == 8
         IN  IF scale <= 1
             THEN blit_buffer(bw * bh * 2, x, y, bw, bh, TRUE)
             ELSE blit_buffer((bw * scale) * (bh * scale) * 2, x, y,
                              bw * scale, bh * scale, TRUE)

\* The chip-select levels after a driver call's events, from the levels
\* before it; and those levels at every point of the call.
CsLevel(trace, dev, before) ==
    LET sets == {i \in 1..Len(trace) : EvKind(trace[i]) = "cs" /\ EvDev(trace[i]) = dev}
    IN  IF sets = {} THEN before
        ELSE EvN(trace[CHOOSE i \in sets : \A j \in sets : j <= i])

CsAfter(trace, levels) ==
    [lcd |-> CsLevel(trace, "lcd", levels.lcd), tp |-> CsLevel(trace, "tp", levels.tp)]

(***************************************************************************)
(* Start-up (main.py top level down to "show_menu()" at the loop's head). *)
(* The display driver's constructor sleeps INIT_SLEEP_MS in all, so the   *)
(* clock reads at least that when the menu is first drawn.                 *)
(***************************************************************************)
INIT_SLEEP_MS == 50 + 50 + 120 + 150 + 120 + 50

StartBadge(present) ==
    draw_mic_badge(present, FALSE, [draw |-> 0, state |-> None, drew |-> <<>>],
                   TRUE, INIT_SLEEP_MS)

\* History kept for the claims about the badge: the latest draw_mic_badge
\* request and the two latest unforced ones.  A request is recorded with its
\* force flag, the clock reading t, the classification it was asked to show,
\* whether it drew, and the time (since) and classification (shown) of the
\* latest draw before it.
BadgeRequest(force, t, micq, drew, last) ==
    [force |-> force, t |-> t, quiet |-> micq, drew |-> drew,
     since |-> IF last = None THEN None
               ELSE IF last[1].drew THEN Some(last[1].t) ELSE last[1].since,
     shown |-> IF last = None THEN None
               ELSE IF last[1].drew THEN Some(last[1].quiet) ELSE last[1].shown]

LogRequest(log, q) ==
    [last     |-> Some(q),
     unforced |-> IF q.force THEN log.unforced
                  ELSE IF log.unforced = <<>> THEN <<q>>
                  ELSE <<log.unforced[Len(log.unforced)], q>>]

StartRequests(present) ==
    IF present
    THEN LogRequest([last |-> None, unforced |-> <<>>],
                    BadgeRequest(TRUE, INIT_SLEEP_MS, FALSE,
                                 StartBadge(present).drew # <<>>, None))
    ELSE [last |-> None, unforced |-> <<>>]

InitNav ==
    /\ current_screen = SCREEN_MENU
    /\ menu_page = 0
    /\ page_index = 0
    /\ theme_index = 0
    /\ comm_cat_name = "FAVOURITES"
    /\ comm_cards = FAV_CARDS
    /\ comm_card_index = 0
    /\ menu_buttons = build_menu_buttons(0)
    /\ settings_buttons = <<>>
    /\ comm_menu_buttons = <<>>

\* The drivers after construction: the display driver's constructor was the
\* latest call on the bus; both chip-selects were constructed high.
InitDrv(madctl, bgr) ==
    /\ drv_op = [op |-> "ILI9486", args |-> <<madctl, IF bgr THEN 1 ELSE 0>>]
    /\ drv_bus = ILI9486_init(madctl, bgr)
    /\ drv_res = None
    /\ lcd_cs = CsAfter(ILI9486_init(madctl, bgr), [lcd |-> 1, tp |-> 1]).lcd
    /\ tp_cs = 1

\* mic is TRUE when MicLevel(...) was constructed, FALSE when it raised.
InitApp(present) ==
    /\ InitNav
    /\ mic = present
    /\ mic_quiet = FALSE
    /\ mic_rms = 0
    /\ last_mic_poll = 0
    /\ last_badge_draw = StartBadge(present).draw
    /\ last_badge_state = StartBadge(present).state
    /\ ema_rms = MicLevel_init.ema
    /\ quiet = MicLevel_init.quiet
    /\ quiet_start = MicLevel_init.quiet_start
    /\ pc = "loop"
    /\ ticks = INIT_SLEEP_MS
    /\ was_down = FALSE
    /\ last_tap_ms = 0
    /\ drawn = <<[screen |-> SCREEN_MENU, content |-> <<0, menu_total_pages>>,
                  buttons |-> build_menu_buttons(0) \o <<btn_menu_prev, btn_menu_next>>]>>
    /\ badge_drawn = StartBadge(present).drew
    /\ spoken = None
    /\ fired = None
    /\ step_log = <<>>
    /\ touch_run = None
    /\ run_fires = <<>>
    /\ run_rejected = FALSE
    /\ tap_edge = None
    /\ prev_card = None
    /\ below_since = None
    /\ last_at_or_above = None
    /\ interrupted = FALSE
    /\ prev_quiet = None
    /\ badge_reqs = StartRequests(present)

\* A toolkit Screen holding the buttons btns, as add_button leaves it: no
\* latch set, no call made.  The application constructs no such Screen.
InitUi(btns) ==
    /\ ui_buttons = btns
    /\ ui_pressed = [k \in 1..Len(btns) |-> FALSE]
    /\ ui_call = None
    /\ ui_since_up = <<>>

InitWith(present) == InitApp(present) /\ InitDrv(MADCTL, BGR) /\ InitUi(<<>>)

Init == \E present \in BOOLEAN : InitWith(present)

(***************************************************************************)
(* SpecNav: the navigation handlers under any sequence of activations of  *)
(* the current screen's buttons.  The clock is not advanced here.          *)
(***************************************************************************)
Activate ==
    \E i \in 1..Len(screen_buttons) :
        /\ fired' = Some(screen_buttons[i].on_press)
        /\ step_log' = <<>>
        /\ on_press(screen_buttons[i].on_press,
                    Ctx(ticks, mic_quiet,
                        [draw |-> last_badge_draw, state |-> last_badge_state, drew |-> <<>>]))
        /\ prev_card' = Some(<<comm_cat_name, comm_card_index>>)
        /\ UNCHANGED <<mic, mic_quiet, mic_rms, last_mic_poll, micVars, loopVars,
                       touch_run, run_fires, run_rejected, tap_edge, micHist, badge_reqs, drvVars, uiVars>>

NextNav == Activate

SpecNav == Init /\ [][NextNav]_vars

(***************************************************************************)
(* SpecMic: the classifier under any sequence of update() calls, each     *)
(* with a raw RMS from RawLevels and UpdateGaps after the previous one.   *)
(***************************************************************************)
RawLevels  == {0, 200, 410, 500}
UpdateGaps == {100, 700}
MaxMicTicks == 3600

MicUpdate ==
    \E raw \in RawLevels, gap \in UpdateGaps :
        /\ mic
        /\ ticks + gap <= MaxMicTicks
        /\ ticks' = ticks + gap
        /\ SetClassifier(update(Classifier, raw, ticks + gap))
        /\ SetMicHistory(update(Classifier, raw, ticks + gap), ticks + gap)
        /\ UNCHANGED <<navVars, badgeVars, pc, was_down, last_tap_ms, outVars,
                       touch_run, run_fires, run_rejected, tap_edge, prev_card, badge_reqs, drvVars, uiVars>>

NextMic == MicUpdate

SpecMic == InitWith(TRUE) /\ [][NextMic]_vars

(***************************************************************************)
(* The digitizer driver on the bus: _read12 frames one 3-byte transfer    *)
(* with the digitizer's chip-select; get_raw makes two of them per sample *)
(* pair (Y, then X) and sleeps delay_us after each pair.                   *)
(***************************************************************************)
CMD_X == 208
CMD_Y == 144

_read12_bus(cmd) ==
    <<Ev("cs", "tp", 0, <<>>), Ev("spi", "tp", 1, <<cmd, 0, 0>>), Ev("cs", "tp", 1, <<>>)>>

\* The value _read12 returns for the received bytes rx[1], rx[2].
_read12(rx1, rx2) == (rx1 * 256 + rx2) \div 16

RECURSIVE get_raw_bus(_, _)
get_raw_bus(samples, delay_us) ==
    IF samples <= 0 THEN <<>>
    ELSE _read12_bus(CMD_Y) \o _read12_bus(CMD_X) \o <<Ev("sleep_us", "tp", delay_us, <<>>)>>
         \o get_raw_bus(samples - 1, delay_us)

(***************************************************************************)
(* Touch digitizer driver (xpt2046.py).  A sample is the 12-bit value      *)
(* _read12 returns; get_raw works on the samples of its read pairs.        *)
(***************************************************************************)
RECURSIVE Insert(_, _)
Insert(v, sorted) ==
    IF sorted = <<>> THEN <<v>>
    ELSE IF v <= Head(sorted) THEN <<v>> \o sorted
    ELSE <<Head(sorted)>> \o Insert(v, Tail(sorted))

\* list.sort(): the samples in ascending order.
RECURSIVE Sort(_)
Sort(xs) == IF xs = <<>> THEN <<>> ELSE Insert(Head(xs), Sort(Tail(xs)))

\* The methods class XPT2046 defines.
XPT2046_methods == {"touched", "_read12", "get_raw"}

\* XPT2046.touched() with an interrupt line configured: low means touched.
touched(irq_value) == irq_value = 0

\* Mutant of get_raw: the lower of the two middle samples is taken.
get_raw_lower_median(irq_value, xs, ys) ==
    IF ~touched(irq_value) THEN None
    ELSE LET sx == Sort(xs)
             sy == Sort(ys)
         IN  Some(<<sx[(Len(sx) - 1) \div 2 + 1], sy[(Len(sy) - 1) \div 2 + 1],
                    (sx[Len(sx)] - sx[1]) + (sy[Len(sy)] - sy[1])>>)

\* XPT2046.get_raw: None when the interrupt line reads not-touched, else
\* (median x, median y, spread of x + spread of y) of the sample pairs.
get_raw(irq_value, xs, ys) ==
    IF ~touched(irq_value) THEN None
    ELSE LET sx == Sort(xs)
             sy == Sort(ys)
         IN  Some(<<sx[Len(sx) \div 2 + 1], sy[Len(sy) \div 2 + 1],
                    (sx[Len(sx)] - sx[1]) + (sy[Len(sy)] - sy[1])>>)

(***************************************************************************)
(* Touch mapping (main.py clamp, map_linear, raw_to_screen).               *)
(***************************************************************************)
clamp(v, lo, hi) == IF v < lo THEN lo ELSE IF v > hi THEN hi ELSE v

\* Mutant of map_linear: the result is not clamped.
map_linear_unclamped(raw, raw_min, raw_max, out_min, out_max) ==
    IF raw_max = raw_min THEN out_min
    ELSE (((raw - raw_min) * (out_max - out_min)) \div (raw_max - raw_min)) + out_min

map_linear(raw, raw_min, raw_max, out_min, out_max) ==
    IF raw_max = raw_min THEN out_min
    ELSE clamp((((raw - raw_min) * (out_max - out_min)) \div (raw_max - raw_min)) + out_min,
               Min(out_min, out_max), Max(out_min, out_max))

raw_to_screen(rx, ry) ==
    LET rx1 == IF SWAP_XY THEN ry ELSE rx
        ry1 == IF SWAP_XY THEN rx ELSE ry
        rx2 == IF FLIP_X THEN 3800 - rx1 ELSE rx1
        ry2 == IF FLIP_Y THEN 3800 - ry1 ELSE ry1
    IN  <<map_linear(rx2, RAW_X_LEFT, RAW_X_RIGHT, 0, W - 1),
          map_linear(ry2, RAW_Y_TOP, RAW_Y_BOT, 0, H - 1)>>

(***************************************************************************)
(* wrap_text (main.py).  A string is the sequence of its characters, each *)
(* a one-character string; " " is the space and "\n" the line break.      *)
(***************************************************************************)
\* str.split(sep) with an explicit separator: empty pieces are kept.
RECURSIVE split(_, _)
split(s, sep) ==
    IF \A i \in 1..Len(s) : s[i] # sep THEN <<s>>
    ELSE LET i == CHOOSE i \in 1..Len(s) :
                      s[i] = sep /\ \A j \in 1..(i - 1) : s[j] # sep
         IN  <<SubSeq(s, 1, i - 1)>> \o split(SubSeq(s, i + 1, Len(s)), sep)

\* str.strip(): leading and trailing whitespace removed.
RECURSIVE strip(_)
strip(s) ==
    IF s = <<>> THEN s
    ELSE IF Head(s) \in {" ", "\n"} THEN strip(Tail(s))
    ELSE IF s[Len(s)] \in {" ", "\n"} THEN strip(SubSeq(s, 1, Len(s) - 1))
    ELSE s

\* "if cur: lines.append(cur)".
flush(st) == IF st.cur # <<>> THEN Append(st.lines, st.cur) ELSE st.lines

\* Mutant of add_token: a token that fills the line exactly does not fit.
add_token_strict(st, p, max_chars) ==
    IF Len(st.cur) + (IF st.cur # <<>> THEN 1 ELSE 0) + Len(p) < max_chars
    THEN [lines |-> st.lines, cur |-> strip(st.cur \o <<" ">> \o p)]
    ELSE [lines |-> flush(st), cur |-> p]

\* The fit test and its two branches, for the token p.
add_token(st, p, max_chars) ==
    IF Len(st.cur) + (IF st.cur # <<>> THEN 1 ELSE 0) + Len(p) <= max_chars
    THEN [lines |-> st.lines, cur |-> strip(st.cur \o <<" ">> \o p)]
    ELSE [lines |-> flush(st), cur |-> p]

\* The inner loop over the parts of a word that holds line breaks.
RECURSIVE wrap_parts(_, _, _)
wrap_parts(st, parts, max_chars) ==
    IF parts = <<>> THEN st
    ELSE LET p  == Head(parts)
             s1 == IF p # <<>> THEN add_token(st, p, max_chars) ELSE st
             s2 == IF Len(parts) # 1 THEN [lines |-> flush(s1), cur |-> <<>>] ELSE s1
         IN  wrap_parts(s2, Tail(parts), max_chars)

\* The outer loop over the words.
RECURSIVE wrap_words(_, _, _)
wrap_words(st, words, max_chars) ==
    IF words = <<>> THEN st
    ELSE LET w_ == Head(words)
         IN  wrap_words(IF \E i \in 1..Len(w_) : w_[i] = "\n"
                        THEN wrap_parts(st, split(w_, "\n"), max_chars)
                        ELSE add_token(st, w_, max_chars),
                        Tail(words), max_chars)

wrap_text(s, max_chars) ==
    flush(wrap_words([lines |-> <<>>, cur |-> <<>>], split(s, " "), max_chars))

(***************************************************************************)
(* The touch loop (main.py "while True").  One action is one iteration.   *)
(***************************************************************************)
TAP_DEBOUNCE_MS == 160
PRESS_HOLD_MS   == 70
LOOP_SLEEP_MS   == 12
TOUCH_SAMPLES   == 9

\* The time _read_rms spends sleeping between its samples.
MicSampleMs == (MIC_SAMPLE_COUNT * MIC_SAMPLE_US) \div 1000

\* The debounce test of the loop: is a rising edge at clock reading now accepted?
tap_accepted(now, last) == ticks_diff(now, last) > TAP_DEBOUNCE_MS

\* The pressure gate of the loop: does a sample with pressure p count as down?
pressure_ok(p) == p <= P_MAX

\* poll_mic_and_update_badge() at clock reading now, with raw_rms what
\* _read_rms() would return: the new classifier, globals and badge state,
\* and the clock reading when it returns.
\* Mutant of poll_mic_and_update_badge: no test for an absent classifier.
poll_mic_without_guard(now, raw_rms) ==
    LET b0 == [draw |-> last_badge_draw, state |-> last_badge_state, drew |-> <<>>]
        skip == [polled |-> FALSE, m |-> Classifier, mic_quiet |-> mic_quiet,
                 mic_rms |-> mic_rms, last_mic_poll |-> last_mic_poll,
                 badge |-> b0, t |-> now]
        m == update(Classifier, raw_rms, now + MicSampleMs)
    IN  IF ticks_diff(now, last_mic_poll) < MIC_POLL_MS THEN skip
        ELSE [polled |-> TRUE, m |-> m, mic_quiet |-> m.quiet, mic_rms |-> m.ema,
              last_mic_poll |-> now,
              badge |-> draw_mic_badge(TRUE, m.quiet, b0, FALSE, now + MicSampleMs),
              t |-> now + MicSampleMs]

poll_mic_and_update_badge(now, raw_rms) ==
    LET b0 == [draw |-> last_badge_draw, state |-> last_badge_state, drew |-> <<>>]
        skip == [polled |-> FALSE, m |-> Classifier, mic_quiet |-> mic_quiet,
                 mic_rms |-> mic_rms, last_mic_poll |-> last_mic_poll,
                 badge |-> b0, t |-> now]
        m == update(Classifier, raw_rms, now + MicSampleMs)
    IN  IF ~mic THEN skip
        ELSE IF ticks_diff(now, last_mic_poll) < MIC_POLL_MS THEN skip
        ELSE [polled |-> TRUE, m |-> m, mic_quiet |-> m.quiet, mic_rms |-> m.ema,
              last_mic_poll |-> now,
              badge |-> draw_mic_badge(TRUE, m.quiet, b0, FALSE, now + MicSampleMs),
              t |-> now + MicSampleMs]

SetPoll(r) ==
    /\ mic' = mic
    /\ mic_quiet' = r.mic_quiet
    /\ mic_rms' = r.mic_rms
    /\ last_mic_poll' = r.last_mic_poll
    /\ SetClassifier(r.m)
    /\ IF r.polled THEN SetMicHistory(r.m, r.t) ELSE UNCHANGED micHist

\* The index of the first button of btns containing the point, 0 if none.
first_hit(btns, sx, sy) ==
    IF \E i \in 1..Len(btns) : contains(btns[i], sx, sy)
    THEN CHOOSE i \in 1..Len(btns) :
            /\ contains(btns[i], sx, sy)
            /\ \A j \in 1..(i - 1) : ~contains(btns[j], sx, sy)
    ELSE 0

\* Mutant of dispatch: the action is invoked before the pressed feedback.
dispatch_action_first(sx, sy, n, hit) ==
    <<(<<"tap", sx, sy>>)>>
    \o [i \in 1..(IF hit > 0 THEN hit ELSE n) |-> <<"contains", i, 0>>]
    \o (IF hit > 0
        THEN <<(<<"on_press", hit, 0>>), (<<"draw_button", hit, 1>>),
               (<<"sleep_ms", PRESS_HOLD_MS, 0>>), (<<"draw_button", hit, 0>>)>>
        ELSE <<>>)

\* What the loop does with an accepted tap at (sx, sy), in order, over a list
\* of n buttons of which the first containing the point is at index hit (0:
\* none): the containment tests up to the break, then draw_button pressed,
\* the sleep, draw_button normal and the button's on_press.
dispatch(sx, sy, n, hit) ==
    <<(<<"tap", sx, sy>>)>>
    \o [i \in 1..(IF hit > 0 THEN hit ELSE n) |-> <<"contains", i, 0>>]
    \o (IF hit > 0
        THEN <<(<<"draw_button", hit, 1>>), (<<"sleep_ms", PRESS_HOLD_MS, 0>>),
               (<<"draw_button", hit, 0>>), (<<"on_press", hit, 0>>)>>
        ELSE <<>>)

\* No button action in this iteration: nothing rendered but the badge.
NoDispatch(r) ==
    /\ fired' = None
    /\ spoken' = None
    /\ NoRender(Ctx(r.t, r.mic_quiet, r.badge))
    /\ UNCHANGED navVars

\* The body of one iteration from line 838 on, given the reading t (None or
\* <<(rx, ry, p)>>) that line 837 produced, the result r of the mic poll,
\* and d the time the whole iteration takes.  held says that the interrupt
\* line was low at both of the iteration's tests, with the finger on pt.
LoopBody(now, r, t, held, pt, d) ==
    LET down == t # None /\ pressure_ok(t[1][3])
        s    == IF down THEN raw_to_screen(t[1][1], t[1][2]) ELSE <<0, 0>>
        edge == down /\ ~was_down
        acc  == edge /\ tap_accepted(now, last_tap_ms)
        hit  == IF acc THEN first_hit(screen_buttons, s[1], s[2]) ELSE 0
        busy == (r.t - now) + (IF hit > 0 THEN PRESS_HOLD_MS ELSE 0) + LOOP_SLEEP_MS
    IN  /\ d >= busy
        /\ SetPoll(r)
        /\ last_tap_ms' = IF acc THEN now ELSE last_tap_ms
        /\ step_log' = IF acc THEN dispatch(s[1], s[2], Len(screen_buttons), hit) ELSE <<>>
        /\ IF hit > 0
           THEN /\ fired' = Some(screen_buttons[hit].on_press)
                /\ on_press(screen_buttons[hit].on_press,
                            Ctx(r.t + PRESS_HOLD_MS, r.mic_quiet, r.badge))
           ELSE NoDispatch(r)
        /\ was_down' = down
        /\ ticks' = now + d
        /\ pc' = "loop"
        /\ tap_edge' = IF edge
                       THEN Some([elapsed |-> ticks_diff(now, last_tap_ms),
                                  earlier |-> last_tap_ms > 0,
                                  accepted |-> acc])
                       ELSE None
        /\ touch_run' = IF held THEN Some(pt) ELSE None
        /\ run_fires' = (IF held /\ touch_run # None THEN run_fires ELSE <<>>)
                        \o (IF hit > 0 THEN <<screen_buttons[hit].on_press>> ELSE <<>>)
        /\ run_rejected' = ((held /\ touch_run # None /\ run_rejected)
                            \/ (held /\ edge /\ ~acc))
        /\ prev_card' = Some(<<comm_cat_name, comm_card_index>>)

\* The iteration's inputs: how long it takes, what the microphone hears.
Durations     == {40, 120, 160}
LoopRawLevels == {0, 500}
MaxTicks      == 1100

(***************************************************************************)
(* Spec: the program as written.  Line 837 calls tp.read, which class     *)
(* XPT2046 does not define: when the digitizer reports a touch the call   *)
(* raises AttributeError, nothing catches it and the loop ends.            *)
(***************************************************************************)
LoopIteration ==
    \E irq_low \in BOOLEAN, d \in Durations, raw \in LoopRawLevels :
        LET now == ticks
            r   == poll_mic_and_update_badge(now, raw)
        IN  /\ pc = "loop"
            /\ now + d <= MaxTicks
            /\ ~r.polled => raw = 0
            /\ UNCHANGED <<badge_reqs, drvVars, uiVars>>
            /\ IF irq_low /\ "read" \notin XPT2046_methods
               THEN /\ pc' = "crashed"
                    /\ SetPoll(r)
                    /\ NoDispatch(r)
                    /\ step_log' = <<>>
                    /\ ticks' = r.t
                    /\ touch_run' = Some(<<0, 0>>)
                    /\ UNCHANGED <<was_down, last_tap_ms, run_fires, run_rejected, tap_edge, prev_card>>
               ELSE LoopBody(now, r, None, FALSE, <<0, 0>>, d)

Next == LoopIteration

Spec == Init /\ [][Next]_vars

(***************************************************************************)
(* SpecTap: the loop with line 837's read carried out by get_raw, the     *)
(* driver's sampling method, on 9 sample pairs.  A finger rests on one of *)
(* TouchPoints (raw coordinates) until it lifts; a reading is 9 pairs at  *)
(* that point, one of them off by a noise from Noise on the x axis.        *)
(***************************************************************************)
TouchPoints == {<<666, 3228>>, <<1339, 2826>>, <<1339, 2424>>, <<367, 2823>>}
Noise       == {0, 250, 251}

Samples(v, n) == [k \in 1..TOUCH_SAMPLES |-> IF k = 1 THEN v + n ELSE v]

\* What the digitizer presents to one iteration: the interrupt line when the
\* loop tests it and when get_raw tests it again (0 is low, touched), the
\* point under the finger and the noise of the reading.
Untouched == [irq |-> 1, irq2 |-> 1, pt |-> <<0, 0>>, n |-> 0]
Touches   == {[irq |-> 0, irq2 |-> i2, pt |-> p, n |-> n] :
                 i2 \in {0, 1}, p \in TouchPoints, n \in Noise}

TapIteration ==
    \E tch \in {Untouched} \cup Touches, d \in Durations, raw \in LoopRawLevels :
        LET now == ticks
            r   == poll_mic_and_update_badge(now, raw)
            t   == IF touched(tch.irq)
                   THEN get_raw(tch.irq2, Samples(tch.pt[1], tch.n), Samples(tch.pt[2], 0))
                   ELSE None
        IN  /\ pc = "loop"
            /\ now + d <= MaxTicks
            /\ touch_run # None /\ touched(tch.irq) => tch.pt = touch_run[1]
            /\ ~touched(tch.irq2) => tch.n = 0
            /\ ~r.polled => raw = 0
            /\ LoopBody(now, r, t, touched(tch.irq) /\ touched(tch.irq2), tch.pt, d)
            /\ UNCHANGED <<badge_reqs, drvVars, uiVars>>

NextTap == TapIteration

SpecTap == Init /\ [][NextTap]_vars

(***************************************************************************)
(* SpecBadge: the badge under any interleaving of mic polls (the unforced *)
(* requests of poll_mic_and_update_badge) and presses of the menu's PREV  *)
(* and NEXT buttons (whose renders make the forced request of             *)
(* draw_title_bar), each BadgeGaps after the previous step.                *)
(***************************************************************************)
BadgeGaps     == {190, 800}
MaxBadgeTicks == 2600

BadgePoll ==
    \E gap \in BadgeGaps, raw \in LoopRawLevels :
        LET now == ticks + gap
            r   == poll_mic_and_update_badge(now, raw)
        IN  /\ mic
            /\ now <= MaxBadgeTicks
            /\ ~r.polled => raw = 0
            /\ SetPoll(r)
            /\ NoDispatch(r)
            /\ step_log' = <<>>
            /\ ticks' = r.t
            /\ badge_reqs' = IF r.polled
                             THEN LogRequest(badge_reqs,
                                     BadgeRequest(FALSE, r.t, r.mic_quiet,
                                                  r.badge.drew # <<>>, badge_reqs.last))
                             ELSE badge_reqs
            /\ UNCHANGED <<pc, was_down, last_tap_ms, touch_run, run_fires, run_rejected, tap_edge,
                           prev_card, drvVars, uiVars>>

BadgePress ==
    \E gap \in BadgeGaps, i \in 1..Len(screen_buttons) :
        LET now == ticks + gap
            a   == screen_buttons[i].on_press
        IN  /\ mic
            /\ now <= MaxBadgeTicks
            /\ a.fn \in {"menu_prev", "menu_next"}
            /\ fired' = Some(a)
            /\ step_log' = <<>>
            /\ on_press(a, Ctx(now, mic_quiet,
                               [draw |-> last_badge_draw, state |-> last_badge_state,
                                drew |-> <<>>]))
            /\ ticks' = now
            /\ badge_reqs' = IF drawn' # <<>>
                             THEN LogRequest(badge_reqs,
                                     BadgeRequest(TRUE, now, mic_quiet,
                                                  badge_drawn' # <<>>, badge_reqs.last))
                             ELSE badge_reqs
            /\ prev_card' = Some(<<comm_cat_name, comm_card_index>>)
            /\ UNCHANGED <<mic, mic_quiet, mic_rms, last_mic_poll, micVars, pc, was_down,
                           last_tap_ms, touch_run, run_fires, run_rejected, tap_edge, micHist, drvVars, uiVars>>

NextBadge == BadgePoll \/ BadgePress

SpecBadge == InitWith(TRUE) /\ [][NextBadge]_vars

(***************************************************************************)
(* SpecBus: the drivers and the controller's pure helpers under any       *)
(* sequence of calls with arguments from the sets below, after the        *)
(* display driver was constructed with any of MadctlValues and either     *)
(* colour order.                                                           *)
(***************************************************************************)
MadctlValues == {0, 40, 72, 64, 328}
RectXs  == {-3, 0, 470, 480}
RectYs  == {-2, 0, 319, 320}
RectWs  == {-1, 0, 3, 10, 32, 481}
RectHs  == {0, 1, 5, 32, 321}
Colours == {31, 63519, 74565}
BlitWs  == {0, 8, 16, 480, 481}
BlitHs  == {-8, 8, 16}
TextLens == {0, 1, 4}
Scales  == {1, 2}
RxBytes == {0, 18, 255}
BusNoise == {0, 251}
GetRawCalls == {<<5, 200>>, <<9, 120>>}
DigitizerOps == {"_read12", "get_raw"}

InitBus == \E madctl \in MadctlValues, bgr \in BOOLEAN :
               InitApp(TRUE) /\ InitDrv(madctl, bgr) /\ InitUi(<<>>)

\* A driver call: its events go on the bus and move the chip-selects.
DrvCall(op, args, trace, res) ==
    /\ drv_op' = [op |-> op, args |-> args]
    /\ drv_bus' = trace
    /\ drv_res' = res
    /\ lcd_cs' = CsAfter(trace, [lcd |-> lcd_cs, tp |-> tp_cs]).lcd
    /\ tp_cs' = CsAfter(trace, [lcd |-> lcd_cs, tp |-> tp_cs]).tp
    /\ UNCHANGED <<navVars, badgeVars, micVars, loopVars, outVars, histVars, uiVars>>

\* Calls of the two drivers alternate, as in the loop, which reads the
\* digitizer and then draws: a display call follows the constructor or a
\* digitizer call, a digitizer call follows a display call.
AfterDigitizer == drv_op.op \in DigitizerOps \/ drv_op.op = "ILI9486"
AfterDisplay   == drv_op.op \notin DigitizerOps

LcdFillRect ==
    \E x \in RectXs, y \in RectYs, w \in RectWs, h \in RectHs, c \in Colours :
        /\ AfterDigitizer
        /\ DrvCall("fill_rect", <<x, y, w, h, c>>, fill_rect(x, y, w, h, c), None)

LcdDrawPixel ==
    \E x \in RectXs, y \in RectYs, c \in Colours :
        /\ AfterDigitizer
        /\ DrvCall("draw_pixel", <<x, y, c>>, draw_pixel(x, y, c), None)

LcdBlitBuffer ==
    \E x \in RectXs, y \in RectYs, w \in BlitWs, h \in BlitHs, le \in BOOLEAN :
        /\ AfterDigitizer
        /\ DrvCall("blit_buffer", <<x, y, w, h, IF le THEN 1 ELSE 0>>,
                   blit_buffer(Max(w * h * 2, 0), x, y, w, h, le), None)

LcdText ==
    \E len \in TextLens, x \in RectXs, y \in RectYs, scale \in Scales :
        /\ AfterDigitizer
        /\ DrvCall("text", <<x, y, len, scale>>, text(len, x, y, scale), None)

TpRead12 ==
    \E cmd \in {CMD_X, CMD_Y}, rx1 \in RxBytes, rx2 \in RxBytes :
        /\ AfterDisplay
        /\ DrvCall("_read12", <<cmd, rx1, rx2>>, _read12_bus(cmd), Some(_read12(rx1, rx2)))

TpGetRaw ==
    \E irq \in {0, 1}, call \in GetRawCalls, noise \in BusNoise :
        LET xs == [k \in 1..call[1] |-> IF k = 1 THEN 1339 + noise ELSE 1339]
            ys == [k \in 1..call[1] |-> 2424]
        IN  /\ AfterDisplay
            /\ DrvCall("get_raw", <<irq, call[1], call[2], noise>>,
                       IF touched(irq) THEN get_raw_bus(call[1], call[2]) ELSE <<>>,
                       get_raw(irq, xs, ys))

NextBus == \/ LcdFillRect \/ LcdDrawPixel \/ LcdBlitBuffer \/ LcdText
           \/ TpRead12 \/ TpGetRaw

SpecBus == InitBus /\ [][NextBus]_vars

(***************************************************************************)
(* SpecFn: the pure helpers.  The initial state holds a call that has not *)
(* been made yet, its arguments drawn from the sets below; the actions    *)
(* make the call and store what it returns.                                *)
(***************************************************************************)
RawXs == {0, 283, 284, 285, 930, 1575, 1576, 1577, 4095}
RawYs == {0, 2183, 2184, 2185, 2800, 3467, 3468, 3469, 3800, 3801, 4095}

MaxSamples == 3
XSamples   == {10, 12, 50}
YSamples   == {20, 90}
SamplePairs ==
    UNION {[1..n -> XSamples] \X [1..n -> YSamples] : n \in 1..MaxSamples}
    \cup {<<(<<10, 50, 12, 48, 11>>), (<<20, 21, 90, 22, 19>>)>>}

MaxTextLen == 5
Chars      == {"a", "b", " ", "\n"}
Texts      == UNION {[1..n -> Chars] : n \in 0..MaxTextLen}
Budgets    == {2, 3, 4}
ONE_TWO_THREE == <<"O", "N", "E", " ", "T", "W", "O", " ", "T", "H", "R", "E", "E">>

FnCalls ==
    {[op |-> "raw_to_screen", args |-> <<rx, ry>>] : rx \in RawXs, ry \in RawYs}
    \cup {[op |-> "get_raw", args |-> <<irq, sp[1], sp[2]>>] :
              irq \in {0, 1}, sp \in SamplePairs}
    \cup {[op |-> "wrap_text", args |-> <<t, m>>] : t \in Texts, m \in Budgets}
    \cup {[op |-> "wrap_text", args |-> <<ONE_TWO_THREE, 7>>]}

InitFn ==
    /\ InitApp(TRUE)
    /\ InitUi(<<>>)
    /\ drv_op \in FnCalls
    /\ drv_bus = <<>>
    /\ drv_res = None
    /\ lcd_cs = 1
    /\ tp_cs = 1

Returns(v) ==
    /\ drv_res' = Some(v)
    /\ UNCHANGED <<navVars, badgeVars, micVars, loopVars, outVars, histVars,
                   drv_op, lcd_cs, tp_cs, uiVars>>

CallRawToScreen ==
    /\ drv_op.op = "raw_to_screen" /\ drv_res = None
    /\ drv_bus' = <<>>
    /\ Returns(raw_to_screen(drv_op.args[1], drv_op.args[2]))

CallGetRaw ==
    /\ drv_op.op = "get_raw" /\ drv_res = None
    /\ drv_bus' = IF touched(drv_op.args[1])
                  THEN get_raw_bus(Len(drv_op.args[2]), 200) ELSE <<>>
    /\ Returns(get_raw(drv_op.args[1], drv_op.args[2], drv_op.args[3]))

CallWrapText ==
    /\ drv_op.op = "wrap_text" /\ drv_res = None
    /\ drv_bus' = <<>>
    /\ Returns(wrap_text(drv_op.args[1], drv_op.args[2]))

NextFn == CallRawToScreen \/ CallGetRaw \/ CallWrapText

SpecFn == InitFn /\ [][NextFn]_vars

(***************************************************************************)
(* The generic toolkit's Screen (ui.py), which the application does not   *)
(* use.  The result of handle_touch is the new latches and the index of   *)
(* the button whose on_press it invoked (0: none).  A button constructed  *)
(* without an action carries Act("none", 0).                               *)
(***************************************************************************)
\* The loop "for b in self.buttons" from index i on, with the latches p.
RECURSIVE scan_buttons(_, _, _, _, _)
scan_buttons(btns, p, i, x, y) ==
    IF i > Len(btns) THEN [pressed |-> p, fired |-> 0]
    ELSE IF contains(btns[i], x, y) /\ ~p[i]
         THEN IF btns[i].on_press.fn # "none"
              THEN [pressed |-> [p EXCEPT ![i] = TRUE], fired |-> i]
              ELSE scan_buttons(btns, [p EXCEPT ![i] = TRUE], i + 1, x, y)
         ELSE scan_buttons(btns, p, i + 1, x, y)

handle_touch(btns, p, x, y, pressed) ==
    IF ~pressed THEN [pressed |-> [k \in 1..Len(btns) |-> FALSE], fired |-> 0]
    ELSE scan_buttons(btns, p, 1, x, y)

(***************************************************************************)
(* SpecUi: a toolkit Screen holding one of UiLayouts under any sequence   *)
(* of handle_touch calls at UiPoints, finger down or up.                   *)
(***************************************************************************)
UiLayouts ==
    { <<Button(0, 0, 10, 10, "A", Act("a", 0)), Button(20, 0, 10, 10, "B", Act("b", 0))>>,
      <<Button(0, 0, 10, 10, "A", Act("a", 0)), Button(5, 5, 10, 10, "B", Act("b", 0)),
        Button(20, 0, 10, 10, "C", Act("none", 0))>>,
      <<Button(0, 0, 10, 10, "A", Act("none", 0)), Button(5, 5, 10, 10, "B", Act("b", 0)),
        Button(20, 0, 10, 10, "C", Act("c", 0))>>,
      <<Button(0, 0, 10, 10, "A", Act("a", 0))>> }
UiPoints == {<<2, 2>>, <<7, 7>>, <<12, 12>>, <<22, 2>>, <<40, 40>>}

InitUiScreen == \E btns \in UiLayouts :
                    InitApp(TRUE) /\ InitDrv(MADCTL, BGR) /\ InitUi(btns)

HandleTouch ==
    \E pt \in UiPoints, pressed \in BOOLEAN :
        LET r == handle_touch(ui_buttons, ui_pressed, pt[1], pt[2], pressed)
        IN  /\ ~pressed => pt = <<40, 40>>
            /\ ui_pressed' = r.pressed
            /\ ui_call' = Some([x |-> pt[1], y |-> pt[2], pressed |-> pressed,
                                fired |-> r.fired])
            /\ ui_since_up' = IF ~pressed THEN <<>>
                              ELSE IF r.fired > 0 THEN Append(ui_since_up, r.fired)
                              ELSE ui_since_up
            /\ UNCHANGED <<navVars, badgeVars, micVars, loopVars, outVars, histVars,
                           drvVars, ui_buttons>>

NextUi == HandleTouch

SpecUi == InitUiScreen /\ [][NextUi]_vars

(***************************************************************************)
(*                              The claims                                 *)
(***************************************************************************)

\* C1: a rising edge of finger-down that follows an accepted tap is accepted
\* (hit-tested and dispatched) exactly when at least 160 ms have elapsed since
\* that tap, 160 ms itself included.
C1_AcceptedFrom160 ==
    (tap_edge # None /\ tap_edge[1].earlier)
        => (tap_edge[1].accepted <=> tap_edge[1].elapsed >= TAP_DEBOUNCE_MS)

\* C2: while the digitizer reports a touch on every consecutive iteration
\* (the finger stays on one button), no action is invoked more than once,
\* whatever pressure the individual readings report.
C2_OneFirePerHold ==
    \A i, j \in 1..Len(run_fires) : run_fires[i] = run_fires[j] => i = j

\* C3: once start-up is complete the main loop never terminates: no
\* iteration, one in which the digitizer reports a touch included, lets an
\* error escape the loop.
C3_LoopNeverEnds == pc = "loop"

\* C4: after any sequence of button activations the card index is within the
\* active category's card list, the menu page within the menu's pages and the
\* grounding page index within the 3 grounding pages.
C4_IndicesInBounds ==
    /\ 0 <= comm_card_index /\ comm_card_index < Len(comm_cards)
    /\ \E k \in 1..Len(COMM_CATEGORIES) :
          COMM_CATEGORIES[k].name = comm_cat_name /\ COMM_CATEGORIES[k].cards = comm_cards
    /\ 0 <= menu_page /\ menu_page < menu_total_pages
    /\ 0 <= page_index /\ page_index < 3

\* Next was activated on the last card of the longest category, with grounding
\* on its last page.
C4_Witness ==
    /\ fired = Some(Act("comm_next", 0))
    /\ comm_cat_name = "NEEDS"
    /\ comm_card_index = Len(comm_cards) - 1
    /\ menu_page = 0
    /\ page_index = 2

\* C5: on the Communication-Card screen Prev at index 0 and Next at the last
\* index change nothing (index, category, screen) and render nothing; at any
\* other index Prev lowers and Next raises the index by exactly 1, without
\* wraparound, and the category stays.
C5_PrevNextClamped ==
    [][/\ fired' = Some(Act("comm_prev", 0)) =>
            /\ current_screen = SCREEN_COMM_CARD
            /\ UNCHANGED <<comm_cat_name, comm_cards>>
            /\ IF comm_card_index = 0
               THEN UNCHANGED <<comm_card_index, current_screen>> /\ drawn' = <<>>
               ELSE comm_card_index' = comm_card_index - 1
       /\ fired' = Some(Act("comm_next", 0)) =>
            /\ current_screen = SCREEN_COMM_CARD
            /\ UNCHANGED <<comm_cat_name, comm_cards>>
            /\ IF comm_card_index = Len(comm_cards) - 1
               THEN UNCHANGED <<comm_card_index, current_screen>> /\ drawn' = <<>>
               ELSE comm_card_index' = comm_card_index + 1]_vars

\* Prev was activated on the first card of a category other than the initial
\* one, and did nothing.
C5_Witness ==
    /\ fired = Some(Act("comm_prev", 0))
    /\ prev_card = Some(<<"NEEDS", 0>>)
    /\ comm_card_index = 0
    /\ drawn = <<>>

\* C6: opening category i from the Communication-Menu, whatever category and
\* card index were current, sets the category name and card list to those of
\* category i and the card index to 0, makes Communication-Card the current
\* screen and shows card 0; so every entry into Communication-Card starts at
\* card index 0.
C6_OpenCategoryResets ==
    [][/\ \A i \in 0..(Len(COMM_CATEGORIES) - 1) :
            fired' = Some(Act("open_category", i)) =>
                /\ current_screen = SCREEN_COMM_MENU
                /\ comm_cat_name' = COMM_CATEGORIES[i + 1].name
                /\ comm_cards' = COMM_CATEGORIES[i + 1].cards
                /\ comm_card_index' = 0
                /\ current_screen' = SCREEN_COMM_CARD
                /\ drawn' = <<[screen |-> SCREEN_COMM_CARD,
                               content |-> <<COMM_CATEGORIES[i + 1].name, 0,
                                             Len(COMM_CATEGORIES[i + 1].cards),
                                             COMM_CATEGORIES[i + 1].cards[1]>>,
                               buttons |-> <<btn_comm_speak, btn_comm_menu, btn_comm_prev,
                                             btn_comm_cats, btn_comm_next>>]>>
       /\ (current_screen # SCREEN_COMM_CARD /\ current_screen' = SCREEN_COMM_CARD)
            => comm_card_index' = 0]_vars

\* SENSORY was opened when the last card of NEEDS was current.
C6_Witness ==
    /\ fired = Some(Act("open_category", 2))
    /\ prev_card = Some(<<"NEEDS", 7>>)
    /\ comm_cat_name = "SENSORY"
    /\ comm_card_index = 0
    /\ current_screen = SCREEN_COMM_CARD

\* C7: 4 destinations at 2 per page make exactly 2 menu pages; the buttons
\* built for page p are destinations 2p and 2p+1 in order; Prev on page 0 and
\* Next on the last page leave the page and render nothing; elsewhere Prev
\* and Next change the page by exactly 1.
C7_MenuPagination ==
    /\ [](/\ Len(MENU_ALL_ITEMS) = 4 /\ MENU_ITEMS_PER_PAGE = 2 /\ menu_total_pages = 2
          /\ Len(menu_buttons) = 2
          /\ \A k \in 1..2 :
                /\ menu_buttons[k].label = MENU_ALL_ITEMS[2 * menu_page + k].label
                /\ menu_buttons[k].on_press = MENU_ALL_ITEMS[2 * menu_page + k].fn)
    /\ [][/\ fired' = Some(Act("menu_prev", 0)) =>
                IF menu_page = 0
                THEN menu_page' = menu_page /\ drawn' = <<>>
                ELSE menu_page' = menu_page - 1
          /\ fired' = Some(Act("menu_next", 0)) =>
                IF menu_page = menu_total_pages - 1
                THEN menu_page' = menu_page /\ drawn' = <<>>
                ELSE menu_page' = menu_page + 1]_vars

\* Next was activated on the last menu page, which shows destinations 2 and 3.
C7_Witness ==
    /\ fired = Some(Act("menu_next", 0))
    /\ current_screen = SCREEN_MENU
    /\ menu_page = 1
    /\ drawn = <<>>
    /\ menu_buttons[1].label = "CONTACT DETAILS"
    /\ menu_buttons[2].label = "SETTINGS"

\* A step of SpecMic is one update(); its clock reading is ticks'.
Updated == ticks' # ticks

\* C8: the classifier starts loud; with threshold 0.4 and hold 1500 ms it does
\* not become quiet while the smoothed RMS has been below the threshold for
\* less than 1500 ms, and becomes quiet at the first update at which it has
\* been continuously below the threshold for 1500 ms or more.
C8_QuietAfterDwell ==
    /\ ~quiet
    /\ MIC_QUIET_THRESH = 400 /\ MIC_QUIET_HOLD_MS = 1500
    /\ [][Updated /\ ~quiet =>
            (quiet' <=> /\ below_since' # None
                        /\ ticks_diff(ticks', below_since'[1]) >= 1500)]_vars

\* The smoothed RMS has been below the threshold for exactly 1400 ms and the
\* classifier is still loud.
C8_Witness ==
    /\ prev_quiet = Some(FALSE)
    /\ ~quiet
    /\ below_since # None
    /\ ticks_diff(ticks, below_since[1]) = 1400
    /\ ema_rms < MIC_QUIET_THRESH

\* C9: while loud, an update whose smoothed RMS is at or above the quiet
\* threshold clears the candidate-quiet timer; the dwell then counts from
\* zero from the next sub-threshold update, so no time from before the
\* interruption counts towards the 1500 ms.
C9_InterruptionClearsTimer ==
    /\ [](~quiet /\ quiet_start # None /\ last_at_or_above # None
            => quiet_start[1] > last_at_or_above[1])
    /\ [][Updated /\ ~quiet =>
            /\ ema_rms' >= MIC_QUIET_THRESH => (quiet_start' = None /\ ~quiet')
            /\ (ema_rms' < MIC_QUIET_THRESH /\ quiet_start = None)
                    => (quiet_start' = Some(ticks') /\ ~quiet')
            /\ quiet' => (/\ last_at_or_above # None
                             => ticks_diff(ticks', last_at_or_above[1]) > MIC_QUIET_HOLD_MS
                          /\ last_at_or_above' = last_at_or_above)]_vars

\* A running candidate timer was cleared by an interruption, and the
\* classifier later became quiet after a fresh dwell.
C9_Witness ==
    /\ interrupted
    /\ prev_quiet = Some(FALSE)
    /\ quiet
    /\ last_at_or_above # None

\* C10: while quiet, one update with smoothed RMS strictly above threshold +
\* hysteresis (0.403) makes the classifier loud in that same update, and an
\* update with smoothed RMS at or below it (0.402, say) leaves it quiet.
C10_ImmediateExit ==
    /\ [](MIC_QUIET_THRESH + MIC_HYSTERESIS = 403)
    /\ [][Updated /\ quiet => (quiet' <=> ema_rms' <= 403)]_vars

\* The classifier was quiet and just turned loud on a smoothed RMS of 0.404
\* or more, with no timer running.
C10_Witness ==
    /\ prev_quiet = Some(TRUE)
    /\ ~quiet
    /\ ema_rms > 403
    /\ quiet_start = None

\* The first two clauses of C11: a forced request always draws; an unforced
\* request draws only if at least 250 ms have elapsed since the latest badge
\* draw and the classification differs from the one last drawn.
ForcedAndUnforcedDraws ==
    badge_reqs.last # None =>
        LET q == badge_reqs.last[1]
        IN  /\ q.force => q.drew
            /\ (~q.force /\ q.drew) =>
                   /\ q.since # None
                   /\ ticks_diff(q.t, q.since[1]) >= MIC_DRAW_THROTTLE
                   /\ Some(q.quiet) # q.shown

\* Two unforced requests less than 250 ms apart with the same classification.
CloseUnforcedPair ==
    /\ Len(badge_reqs.unforced) = 2
    /\ ticks_diff(badge_reqs.unforced[2].t, badge_reqs.unforced[1].t) < MIC_DRAW_THROTTLE
    /\ badge_reqs.unforced[1].quiet = badge_reqs.unforced[2].quiet

\* C11 as stated: with the classifier enabled a forced badge request always
\* draws, an unforced one draws only if 250 ms or more have elapsed since the
\* latest badge draw and the classification differs from the one last drawn,
\* and of two unforced requests within 250 ms with an unchanged classification
\* the second never draws.
C11_BadgeThrottle_Stated ==
    /\ ForcedAndUnforcedDraws
    /\ CloseUnforcedPair => ~badge_reqs.unforced[2].drew

\* C11 as amended: as above, but of two unforced requests within 250 ms with an
\* unchanged classification the second does not draw when the first one drew
\* (after a first request that the throttle suppressed, the second may draw).
C11_BadgeThrottle ==
    /\ ForcedAndUnforcedDraws
    /\ (CloseUnforcedPair /\ badge_reqs.unforced[1].drew) => ~badge_reqs.unforced[2].drew

\* An unforced request drew, and the next unforced request, under 250 ms later
\* with the same classification, did not.
C11_Witness ==
    /\ CloseUnforcedPair
    /\ badge_reqs.unforced[1].drew
    /\ ~badge_reqs.unforced[2].drew
    /\ badge_reqs.last = Some(badge_reqs.unforced[2])

\* C12: when construction of the classifier failed at start-up it stays absent
\* for the whole run: no step polls it (the poll time, the classifier's fields
\* and the controller's copies keep their start-up values), no step draws the
\* badge, forced or not, and no step brings the classifier back.
C12_AbsentForTheRun ==
    [][~mic => /\ ~mic'
               /\ badge_drawn' = <<>>
               /\ last_badge_draw' = 0 /\ last_badge_state' = None
               /\ last_mic_poll' = 0 /\ mic_rms' = 0 /\ ~mic_quiet'
               /\ <<ema_rms', quiet', quiet_start'>> =
                      <<MicLevel_init.ema, MicLevel_init.quiet, MicLevel_init.quiet_start>>]_vars

\* With the classifier absent, a tap was dispatched to a handler that rendered
\* a screen, at a time when a poll would have been due.
C12_Witness ==
    /\ ~mic
    /\ fired # None
    /\ drawn # <<>>
    /\ current_screen # SCREEN_MENU
    /\ ticks_diff(ticks, last_mic_poll) >= MIC_POLL_MS

\* The SPI writes of the latest driver call, in order.
IsSpiWrite(e) == EvKind(e) = "spi"
SpiWrites == SelectSeq(drv_bus, IsSpiWrite)

\* The intersection of the rectangle requested from fill_rect with the panel:
\* columns IX0 .. IX1 - 1 and rows IY0 .. IY1 - 1 (empty when IX0 >= IX1 or
\* IY0 >= IY1).
IX0 == Max(drv_op.args[1], 0)
IX1 == Min(drv_op.args[1] + drv_op.args[3], W)
IY0 == Max(drv_op.args[2], 0)
IY1 == Min(drv_op.args[2] + drv_op.args[4], H)

\* The window a call addressed: the column and row bounds sent after the
\* column-address and page-address commands.
WindowSent ==
    <<EvData(SpiWrites[2])[1] * 256 + EvData(SpiWrites[2])[2],
      EvData(SpiWrites[4])[1] * 256 + EvData(SpiWrites[4])[2],
      EvData(SpiWrites[2])[3] * 256 + EvData(SpiWrites[2])[4],
      EvData(SpiWrites[4])[3] * 256 + EvData(SpiWrites[4])[4]>>

\* C13: fill_rect addresses exactly the intersection of the requested
\* rectangle with the panel, and when that intersection is empty it puts
\* nothing on the bus or the pins.
C13_FillRectClips ==
    drv_op.op = "fill_rect" =>
        IF IX0 < IX1 /\ IY0 < IY1
        THEN /\ Len(SpiWrites) >= 5
             /\ EvData(SpiWrites[1]) = <<42>> /\ EvData(SpiWrites[3]) = <<43>>
             /\ EvData(SpiWrites[5]) = <<44>>
             /\ WindowSent = <<IX0, IY0, IX1 - 1, IY1 - 1>>
        ELSE drv_bus = <<>>

\* fill_rect was asked for a rectangle starting left of and above the panel
\* and addressed the clipped window at the panel's origin.
C13_Witness ==
    /\ drv_op = [op |-> "fill_rect", args |-> <<-3, -2, 10, 5, 31>>]
    /\ WindowSent = <<0, 0, 6, 2>>

\* The number of pixels in a sequence of pixel writes.
RECURSIVE PixelsIn(_, _, _)
PixelsIn(ws, i, j) ==
    IF i > j THEN 0
    ELSE IF i = j THEN EvN(ws[i])
    ELSE PixelsIn(ws, i, (i + j) \div 2) + PixelsIn(ws, (i + j) \div 2 + 1, j)

PixelCount(ws) == PixelsIn(ws, 1, Len(ws))

\* C14: after the memory-write command fill_rect sends exactly clipped width
\* times clipped height pixels, each the two bytes (value >> 8) & 0xFF and
\* value & 0xFF, however the stream is chunked; draw_pixel sends exactly one
\* such pixel.
C14_PixelStream ==
    LET c   == drv_op.args[Len(drv_op.args)]
        pix == SubSeq(SpiWrites, 6, Len(SpiWrites))
        two == \A k \in 1..Len(pix) : EvData(pix[k]) = <<(c \div 256) % 256, c % 256>>
    IN  /\ (drv_op.op = "fill_rect" /\ drv_bus # <<>>) =>
               /\ two
               /\ PixelCount(pix) = (IX1 - IX0) * (IY1 - IY0)
        /\ (drv_op.op = "draw_pixel" /\ drv_bus # <<>>) =>
               /\ two
               /\ Len(pix) = 1 /\ PixelCount(pix) = 1

\* fill_rect sent a stream of two full chunks and a partial one, in a colour
\* whose value has more than 16 bits.
C14_Witness ==
    /\ drv_op = [op |-> "fill_rect", args |-> <<0, 0, 481, 5, 74565>>]
    /\ Len(SpiWrites) = 8
    /\ EvN(SpiWrites[8]) = 352

\* C15: blit_buffer puts nothing on the bus or the pins (no window, no data,
\* chip-select never asserted) when the target rectangle has a negative
\* origin, extends past the panel's width or height, or has a non-positive
\* width or height; a partially visible rectangle is not clipped, so text
\* placed partly off the panel is not drawn at all.
C15_BlitRefusesOffPanel ==
    LET x == drv_op.args[1]
        y == drv_op.args[2]
    IN  /\ drv_op.op = "blit_buffer" =>
              LET w == drv_op.args[3]
                  h == drv_op.args[4]
              IN  (x < 0 \/ y < 0 \/ x + w > W \/ y + h > H \/ w <= 0 \/ h <= 0)
                      => drv_bus = <<>>
        /\ drv_op.op = "text" =>
              LET w == 8 * drv_op.args[3] * Max(drv_op.args[4], 1)
                  h == 8 * Max(drv_op.args[4], 1)
              IN  (x < 0 \/ y < 0 \/ x + w > W \/ y + h > H) => drv_bus = <<>>

\* A 4-character text at scale 2 whose last columns fall off the right edge
\* was asked for and nothing went out, after a digitizer call.
C15_Witness ==
    /\ drv_op = [op |-> "text", args |-> <<470, 0, 4, 2>>]
    /\ drv_bus = <<>>

\* The chip-select levels after the first i events of the latest call, both
\* having been high before it.
CsAt(i) == CsAfter(SubSeq(drv_bus, 1, i), [lcd |-> 1, tp |-> 1])

\* C19: the display's and the digitizer's chip-selects are never low at the
\* same time: every driver call leaves both high when it returns, on every
\* path, and at no point of a call are both low.
C19_ChipSelectsNeverOverlap ==
    /\ lcd_cs = 1 /\ tp_cs = 1
    /\ \A i \in 1..Len(drv_bus) : ~(CsAt(i).lcd = 0 /\ CsAt(i).tp = 0)

\* blit_buffer sent a big-endian buffer (its early return) and the display's
\* chip-select, low during the transfer, is high again.
C19_Witness ==
    /\ drv_op.op = "blit_buffer" /\ drv_op.args[5] = 0
    /\ \E i \in 1..Len(drv_bus) : CsAt(i).lcd = 0
    /\ lcd_cs = 1

\* What a call put on the reset line and the bus, in order: each reset level
\* and each SPI write, a write tagged as command or data by the level of the
\* data/command line when it was made.
DcAt(i) ==
    LET sets == {j \in 1..i : EvKind(drv_bus[j]) = "dc"}
    IN  IF sets = {} THEN 0 ELSE EvN(drv_bus[CHOOSE j \in sets : \A l \in sets : l <= j])

IsProtocolItem(item) == item[1] # "other"

Protocol ==
    SelectSeq([i \in 1..Len(drv_bus) |->
                  IF EvKind(drv_bus[i]) = "rst" THEN <<"rst", <<EvN(drv_bus[i])>>>>
                  ELSE IF EvKind(drv_bus[i]) = "spi"
                       THEN <<IF DcAt(i) = 0 THEN "cmd" ELSE "data", EvData(drv_bus[i])>>
                  ELSE <<"other", <<>>>>],
              IsProtocolItem)

\* bit 3 of the orientation value set for BGR, cleared otherwise, 8 bits kept.
ControlByte(madctl, bgr) ==
    (((madctl \div 16) * 16) + (IF bgr = 1 THEN 8 ELSE 0) + (madctl % 8)) % 256

\* C20: constructing the display driver emits, in this order and before any
\* pixel operation: the reset pulse (reset high, low, high), command 0x01,
\* command 0x11, command 0x3A with data 0x55, command 0x36 with the control
\* byte, command 0x29.
C20_InitSequence ==
    drv_op.op = "ILI9486" =>
        Protocol = << <<"rst", <<1>>>>, <<"rst", <<0>>>>, <<"rst", <<1>>>>,
                      <<"cmd", <<1>>>>, <<"cmd", <<17>>>>,
                      <<"cmd", <<58>>>>, <<"data", <<85>>>>,
                      <<"cmd", <<54>>>>,
                      <<"data", <<ControlByte(drv_op.args[1], drv_op.args[2])>>>>,
                      <<"cmd", <<41>>>> >>

\* The driver was constructed with an orientation value that has bit 3 set
\* and more than 8 bits, RGB order selected.
C20_Witness ==
    /\ drv_op = [op |-> "ILI9486", args |-> <<328, 0>>]
    /\ Len(Protocol) = 10

\* The value that enters the linear map of each screen axis for the latest
\* raw_to_screen call, after the axis swap and the reflections about 3800.
EntersX ==
    LET v == IF SWAP_XY THEN drv_op.args[2] ELSE drv_op.args[1]
    IN  IF FLIP_X THEN 3800 - v ELSE v
EntersY ==
    LET v == IF SWAP_XY THEN drv_op.args[1] ELSE drv_op.args[2]
    IN  IF FLIP_Y THEN 3800 - v ELSE v

\* C16: for every raw sample raw_to_screen returns x in 0..W-1 and y in
\* 0..H-1; a value entering the linear map below the calibrated minimum maps
\* to 0 and one above the calibrated maximum to dimension - 1, also after the
\* swap and the reflection, which can make the value negative.
C16_RawToScreenInPanel ==
    (drv_op.op = "raw_to_screen" /\ drv_res # None) =>
        LET sx == drv_res[1][1]
            sy == drv_res[1][2]
        IN  /\ 0 <= sx /\ sx <= W - 1
            /\ 0 <= sy /\ sy <= H - 1
            /\ EntersX < RAW_X_LEFT => sx = 0
            /\ EntersX > RAW_X_RIGHT => sx = W - 1
            /\ EntersY < RAW_Y_TOP => sy = 0
            /\ EntersY > RAW_Y_BOT => sy = H - 1

\* A sample whose reflected value is negative and whose other axis is above
\* the calibrated maximum was mapped to the corner (0, H - 1).
C16_Witness ==
    /\ drv_op = [op |-> "raw_to_screen", args |-> <<4095, 3801>>]
    /\ EntersX < 0
    /\ drv_res = Some(<<0, H - 1>>)

\* v is the element at 0-based index k of the samples once sorted.
IsAtSortedIndex(v, samples, k) ==
    /\ \E i \in 1..Len(samples) : samples[i] = v
    /\ Cardinality({i \in 1..Len(samples) : samples[i] < v}) <= k
    /\ Cardinality({i \in 1..Len(samples) : samples[i] <= v}) > k

\* The largest minus the smallest of the samples.
Spread(samples) ==
    LET hi == CHOOSE v \in {samples[i] : i \in 1..Len(samples)} :
                  \A i \in 1..Len(samples) : samples[i] <= v
        lo == CHOOSE v \in {samples[i] : i \in 1..Len(samples)} :
                  \A i \in 1..Len(samples) : samples[i] >= v
    IN  hi - lo

\* C17: for n >= 1 sample pairs get_raw returns as x the element at index
\* n div 2 of the sorted X samples, as y the element at index n div 2 of the
\* sorted Y samples (each axis sorted on its own) and as pressure
\* (max X - min X) + (max Y - min Y); X [10,50,12,48,11], Y [20,21,90,22,19]
\* give (12, 21, 111).
C17_GetRawMedians ==
    (drv_op.op = "get_raw" /\ drv_op.args[1] = 0 /\ drv_res # None) =>
        LET xs == drv_op.args[2]
            ys == drv_op.args[3]
            r  == drv_res[1][1]
        IN  /\ drv_res[1] # None
            /\ IsAtSortedIndex(r[1], xs, Len(xs) \div 2)
            /\ IsAtSortedIndex(r[2], ys, Len(ys) \div 2)
            /\ r[3] = Spread(xs) + Spread(ys)
            /\ (xs = <<10, 50, 12, 48, 11>> /\ ys = <<20, 21, 90, 22, 19>>)
                   => r = <<12, 21, 111>>

\* get_raw returned (12, 21, 111) for the five sample pairs of the example.
C17_Witness ==
    /\ drv_op = [op |-> "get_raw",
                 args |-> <<0, (<<10, 50, 12, 48, 11>>), (<<20, 21, 90, 22, 19>>)>>]
    /\ drv_res = Some(Some(<<12, 21, 111>>))

\* The tokens of a text, in order: its maximal runs of characters other than
\* space and line break, each with whether a line break stands between it
\* and the token before it.
RECURSIVE TokensFrom(_, _, _, _)
TokensFrom(s, i, tok, brk) ==
    IF i > Len(s)
    THEN (IF tok # <<>> THEN <<(<<tok, brk>>)>> ELSE <<>>)
    ELSE IF s[i] \in {" ", "\n"}
         THEN (IF tok # <<>> THEN <<(<<tok, brk>>)>> ELSE <<>>)
              \o TokensFrom(s, i + 1, <<>>, (IF tok # <<>> THEN FALSE ELSE brk) \/ s[i] = "\n")
         ELSE TokensFrom(s, i + 1, Append(tok, s[i]), brk)

Tokens(s) == TokensFrom(s, 1, <<>>, FALSE)

\* The layout the claim describes: every token in order; a token joins the
\* current line exactly when no line break precedes it and the line's length
\* + 1 (if the line is not empty) + the token's length is within the budget;
\* otherwise the line is closed, if not empty, and the token starts a new one.
RECURSIVE Layout(_, _, _, _)
Layout(toks, lines, cur, budget) ==
    IF toks = <<>> THEN (IF cur # <<>> THEN Append(lines, cur) ELSE lines)
    ELSE LET t    == Head(toks)[1]
             fits == Len(cur) + (IF cur # <<>> THEN 1 ELSE 0) + Len(t) <= budget
         IN  IF cur = <<>> THEN Layout(Tail(toks), lines, t, budget)
             ELSE IF fits /\ ~Head(toks)[2]
                  THEN Layout(Tail(toks), lines, cur \o <<" ">> \o t, budget)
                  ELSE Layout(Tail(toks), Append(lines, cur), t, budget)

\* C18: wrap_text keeps every token in input order, emits no empty line,
\* appends a token to the current line exactly when it fits the budget and
\* otherwise starts a new line, and never puts two tokens separated by a line
\* break on one line; "ONE TWO THREE" with budget 7 gives "ONE TWO", "THREE".
C18_WrapText ==
    (drv_op.op = "wrap_text" /\ drv_res # None) =>
        LET s     == drv_op.args[1]
            lines == drv_res[1]
        IN  /\ lines = Layout(Tokens(s), <<>>, <<>>, drv_op.args[2])
            /\ \A i \in 1..Len(lines) : lines[i] # <<>>
            /\ s = ONE_TWO_THREE =>
                   lines = << <<"O", "N", "E", " ", "T", "W", "O">>,
                              <<"T", "H", "R", "E", "E">> >>

\* wrap_text laid out a text holding a line break and a token that fills the
\* line exactly: "a b" closes the first line, "ab" comes after the break.
C18_Witness ==
    /\ drv_op = [op |-> "wrap_text", args |-> <<(<<"a", " ", "b", "\n", "b">>), 3>>]
    /\ drv_res = Some(<< <<"a", " ", "b">>, <<"b">> >>)

\* The window the latest display call has to address, <<x0, y0, x1, y1>>:
\* the clipped rectangle for fill_rect, the pixel for draw_pixel, the
\* requested rectangle for blit_buffer and the glyph block for text.
WindowDue ==
    CASE drv_op.op = "fill_rect"  -> <<IX0, IY0, IX1 - 1, IY1 - 1>>
      [] drv_op.op = "draw_pixel" ->
            <<drv_op.args[1], drv_op.args[2], drv_op.args[1], drv_op.args[2]>>
      [] drv_op.op = "blit_buffer" ->
            <<drv_op.args[1], drv_op.args[2],
              drv_op.args[1] + drv_op.args[3] - 1, drv_op.args[2] + drv_op.args[4] - 1>>
      [] drv_op.op = "text" ->
            <<drv_op.args[1], drv_op.args[2],
              drv_op.args[1] + 8 * drv_op.args[3] * Max(drv_op.args[4], 1) - 1,
              drv_op.args[2] + 8 * Max(drv_op.args[4], 1) - 1>>
      [] OTHER -> <<0, 0, 0, 0>>

\* The four bytes of a start and an end coordinate, each big-endian 16-bit.
BigEndianPair(a, b) == <<a \div 256, a % 256, b \div 256, b % 256>>

PixelOps == {"fill_rect", "draw_pixel", "blit_buffer", "text"}

\* C21: every pixel stream of fill_rect, draw_pixel or blit_buffer comes
\* directly after the set-window sequence: command 0x2A, 4 data bytes
\* (big-endian start and end X plus the X offset), command 0x2B, 4 data bytes
\* (big-endian start and end Y plus the Y offset), command 0x2C; command
\* bytes go out with the data/command line low, data bytes with it high.
C21_WindowBeforePixels ==
    (drv_op.op \in PixelOps /\ drv_bus # <<>>) =>
        /\ Len(Protocol) >= 6
        /\ SubSeq(Protocol, 1, 5) =
               << <<"cmd", <<42>>>>,
                  <<"data", BigEndianPair(WindowDue[1] + X_OFFSET, WindowDue[3] + X_OFFSET)>>,
                  <<"cmd", <<43>>>>,
                  <<"data", BigEndianPair(WindowDue[2] + Y_OFFSET, WindowDue[4] + Y_OFFSET)>>,
                  <<"cmd", <<44>>>> >>
        /\ \A k \in 6..Len(Protocol) : Protocol[k][1] = "data"

\* draw_pixel put one pixel at (470, 319): the window's column bytes carry a
\* coordinate above 255, and one data write follows the memory-write command.
C21_Witness ==
    /\ drv_op = [op |-> "draw_pixel", args |-> <<470, 319, 63519>>]
    /\ Protocol[2] = <<"data", <<1, 214, 1, 214>>>>
    /\ Len(Protocol) = 6

\* The indices of the buttons of the screen current before the step whose
\* rectangle contains the point of the tap the step accepted.
TapHits ==
    {i \in 1..Len(screen_buttons) :
        contains(screen_buttons[i], step_log'[1][2], step_log'[1][3])}

FirstTapHit == CHOOSE i \in TapHits : \A j \in TapHits : i <= j

IsOnPress(e) == e[1] = "on_press"

\* C22: on an accepted tap the current screen's buttons are scanned in list
\* order and at most one action is invoked: for the first button containing
\* the point the loop renders it pressed, waits 70 ms, renders it normal and
\* only then invokes its action, scanning no later button even when the
\* action changed the screen; a tap that hits no button invokes no action and
\* changes no navigation state.
C22_OneActionPerTap ==
    [][step_log' # <<>> =>
        LET n == Len(screen_buttons)
        IN  /\ Len(SelectSeq(step_log', IsOnPress)) <= 1
            /\ IF TapHits = {}
               THEN /\ Tail(step_log') = [i \in 1..n |-> <<"contains", i, 0>>]
                    /\ fired' = None
                    /\ UNCHANGED navVars
               ELSE /\ Tail(step_log') =
                          [i \in 1..FirstTapHit |-> <<"contains", i, 0>>]
                          \o <<(<<"draw_button", FirstTapHit, 1>>), (<<"sleep_ms", 70, 0>>),
                                (<<"draw_button", FirstTapHit, 0>>),
                                (<<"on_press", FirstTapHit, 0>>)>>
                    /\ fired' = Some(screen_buttons[FirstTapHit].on_press)]_vars

\* An accepted tap on Grounding's MENU button, second in the list, fired it
\* after one test that missed, and the action changed the current screen.
C22_Witness ==
    /\ step_log # <<>>
    /\ step_log[Len(step_log)] = <<"on_press", 2, 0>>
    /\ fired = Some(Act("show_menu", 0))
    /\ current_screen = SCREEN_MENU
    /\ drawn # <<>>

\* C23: the theme index changes only by activating a theme button while
\* Settings is current; that activation sets the index to the button's theme
\* (always in 0..4), renders Settings again and leaves Settings current;
\* every other action leaves the theme index unchanged.
C23_ThemeOnlyFromSettings ==
    [][/\ theme_index' \in 0..4
       /\ theme_index' # theme_index =>
              /\ current_screen = SCREEN_SETTINGS
              /\ fired' # None /\ fired'[1].fn = "apply_theme"
       /\ (fired' # None /\ fired'[1].fn = "apply_theme") =>
              /\ current_screen = SCREEN_SETTINGS
              /\ \E k \in 1..Len(settings_buttons) :
                     /\ settings_buttons[k].on_press = fired'[1]
                     /\ settings_buttons[k].label = THEMES[theme_index' + 1]
              /\ theme_index' = fired'[1].idx
              /\ current_screen' = SCREEN_SETTINGS
              /\ drawn' # <<>>
              /\ drawn'[1].screen = SCREEN_SETTINGS
              /\ drawn'[1].content = <<theme_index'>>
       /\ (fired' # None /\ fired'[1].fn # "apply_theme") =>
              theme_index' = theme_index]_vars

\* The fourth theme's button was activated on Settings: the index is 3 and
\* Settings was rendered with it.
C23_Witness ==
    /\ fired = Some(Act("apply_theme", 3))
    /\ theme_index = 3
    /\ current_screen = SCREEN_SETTINGS
    /\ drawn # <<>> /\ drawn[1].content = <<3>>

\* C24: the grounding page index is changed only by the Grounding screen's
\* Prev and Next, which stop at 0 and 2 without wraparound; leaving Grounding
\* and entering it again shows the page index it was left with.
C24_GroundingPageKept ==
    [][/\ page_index' # page_index =>
              /\ current_screen = SCREEN_GROUND
              /\ fired' \in {Some(Act("grounding_prev", 0)), Some(Act("grounding_next", 0))}
       /\ fired' = Some(Act("grounding_prev", 0)) =>
              /\ current_screen = SCREEN_GROUND
              /\ page_index' = IF page_index = 0 THEN 0 ELSE page_index - 1
       /\ fired' = Some(Act("grounding_next", 0)) =>
              /\ current_screen = SCREEN_GROUND
              /\ page_index' = IF page_index = 2 THEN 2 ELSE page_index + 1
       /\ fired' = Some(Act("show_grounding", 0)) =>
              /\ current_screen # SCREEN_GROUND
              /\ current_screen' = SCREEN_GROUND
              /\ page_index' = page_index
              /\ drawn' # <<>>
              /\ drawn'[1].screen = SCREEN_GROUND
              /\ drawn'[1].content = <<page_index, GROUNDING_PAGES[page_index + 1]>>]_vars

\* Grounding was entered again after it had been left on its last page, and
\* shows that page.
C24_Witness ==
    /\ fired = Some(Act("show_grounding", 0))
    /\ page_index = 2
    /\ current_screen = SCREEN_GROUND
    /\ drawn # <<>> /\ drawn[1].content[1] = 2

\* The current screen has a button with this label and this action.
HasButton(label, a) ==
    \E k \in 1..Len(screen_buttons) :
        screen_buttons[k].label = label /\ screen_buttons[k].on_press = a

\* C25: the current screen is always one of the six screens, is Menu at
\* start-up and changes only as the effect of a button action; on every
\* screen other than Menu that screen's Menu button makes Menu current in one
\* activation, and Cats on Communication-Card makes Communication-Menu
\* current; so Menu can be reached from every reachable state.
C25_ScreenMachine ==
    /\ current_screen = SCREEN_MENU
    /\ [](/\ current_screen \in Screens
          /\ current_screen # SCREEN_MENU => HasButton("MENU", Act("show_menu", 0))
          /\ current_screen = SCREEN_COMM_CARD => HasButton("CATS", Act("show_comm_menu", 0)))
    /\ [][/\ current_screen' # current_screen =>
                 /\ fired' # None
                 /\ \E k \in 1..Len(screen_buttons) : screen_buttons[k].on_press = fired'[1]
          /\ fired' = Some(Act("show_menu", 0)) =>
                 current_screen # SCREEN_MENU /\ current_screen' = SCREEN_MENU
          /\ (fired' = Some(Act("show_comm_menu", 0)) /\ current_screen = SCREEN_COMM_CARD) =>
                 current_screen' = SCREEN_COMM_MENU]_vars

\* Menu was made current again by a Menu button, after a card other than a
\* category's first had been shown.
C25_Witness ==
    /\ fired = Some(Act("show_menu", 0))
    /\ current_screen = SCREEN_MENU
    /\ prev_card # None /\ prev_card[1][2] > 0

\* C26: Screen.handle_touch invokes a button's action at most once between
\* two finger-up calls: once a finger-down call has fired a button, a later
\* finger-down call inside that button fires nothing until a call with
\* pressed=False has cleared every latch; after that the next finger-down
\* call inside it fires again.
C26_LatchUntilFingerUp ==
    /\ \A i, j \in 1..Len(ui_since_up) : ui_since_up[i] = ui_since_up[j] => i = j
    /\ [][LET c  == ui_call'[1]
              in == {k \in 1..Len(ui_buttons) :
                        /\ contains(ui_buttons[k], c.x, c.y)
                        /\ ui_buttons[k].on_press.fn # "none"}
          IN  /\ ~c.pressed => \A k \in 1..Len(ui_buttons) : ~ui_pressed'[k]
              /\ (c.pressed /\ \E k \in in : \E j \in 1..Len(ui_since_up) : ui_since_up[j] = k)
                     => c.fired = 0
              /\ (c.pressed /\ ui_call # None /\ ~ui_call[1].pressed /\ in # {})
                     => c.fired \in in]_uiVars

\* Two button rectangles share no point.
Disjoint(a, b) ==
    \/ a.x + a.w <= b.x \/ b.x + b.w <= a.x
    \/ a.y + a.h <= b.y \/ b.y + b.h <= a.y

\* A button rectangle is not empty and lies on the panel.
OnPanel(b) ==
    /\ b.w > 0 /\ b.h > 0
    /\ 0 <= b.x /\ b.x + b.w <= W
    /\ 0 <= b.y /\ b.y + b.h <= H

\* C27: on every screen, with the 480 x 320 geometry, the rectangles of the
\* buttons screen_buttons returns are pairwise disjoint and lie inside the
\* panel, so a touch point is in at most one active button and the scan
\* order never decides which action fires.
C27_ButtonsDisjoint ==
    /\ \A i \in 1..Len(screen_buttons) : OnPanel(screen_buttons[i])
    /\ \A i, j \in 1..Len(screen_buttons) :
           i # j => Disjoint(screen_buttons[i], screen_buttons[j])

\* Settings is current with its five theme buttons in three rows above the
\* MENU button.
C27_Witness ==
    /\ current_screen = SCREEN_SETTINGS
    /\ Len(screen_buttons) = 6
    /\ screen_buttons[5].y + screen_buttons[5].h <= screen_buttons[6].y
    /\ screen_buttons[3].y + screen_buttons[3].h <= screen_buttons[5].y

\* C28: with the classifier enabled, once the classification has a value v at
\* a poll and keeps it, the badge comes to show v within a bounded number of
\* later polls: at the latest at the next poll, although an unforced request
\* that finds the classification unchanged restarts the 250 ms throttle window
\* without drawing and polls are 220 ms or more apart.
C28_BadgeCatchesUp ==
    LET u == badge_reqs.unforced
    IN  (Len(u) = 2 /\ u[1].quiet = u[2].quiet) => last_badge_state = Some(u[2].quiet)

\* A poll found a new classification but was throttled, the window having
\* been restarted without a draw (the latest draw was 250 ms or more before);
\* the next poll, with no forced request between, drew it.
C28_Witness ==
    LET u == badge_reqs.unforced
    IN  /\ Len(u) = 2
        /\ ~u[1].drew /\ u[1].shown # Some(u[1].quiet)
        /\ u[1].since # None /\ u[1].t - u[1].since[1] >= MIC_DRAW_THROTTLE
        /\ u[2].quiet = u[1].quiet /\ u[2].drew
        /\ u[2].t - u[1].t < MIC_DRAW_THROTTLE
        /\ badge_reqs.last = Some(u[2])
        /\ last_badge_state = Some(u[2].quiet)

\* The label and the action of every button of a list, in order.
Wiring(btns) == [k \in 1..Len(btns) |-> <<btns[k].label, btns[k].on_press>>]

\* C29: after any sequence of actions the buttons hit-tested for the current
\* screen are the ones last rendered for it, with the matching actions: on
\* Menu with page p destinations 2p and 2p+1 followed by Prev and Next; on
\* Settings the i-th theme button applies theme i; on Communication-Menu the
\* i-th category button opens category i (the captured index is the
\* button's own position, not the last loop index).
C29_ButtonsAsRendered ==
    /\ [](/\ drawn # <<>> =>
                 /\ drawn[1].screen = current_screen
                 /\ drawn[1].buttons = screen_buttons
          /\ current_screen = SCREEN_MENU =>
                 Wiring(screen_buttons) =
                     [k \in 1..Min(2, Len(MENU_ALL_ITEMS) - 2 * menu_page) |->
                         <<MENU_ALL_ITEMS[2 * menu_page + k].label,
                           MENU_ALL_ITEMS[2 * menu_page + k].fn>>]
                     \o << <<"PREV", Act("menu_prev", 0)>>, <<"NEXT", Act("menu_next", 0)>> >>
          /\ current_screen = SCREEN_SETTINGS =>
                 Wiring(screen_buttons) =
                     [k \in 1..5 |-> <<THEMES[k], Act("apply_theme", k - 1)>>]
                     \o << <<"MENU", Act("show_menu", 0)>> >>
          /\ current_screen = SCREEN_COMM_MENU =>
                 Wiring(screen_buttons) =
                     [k \in 1..5 |-> <<COMM_CATEGORIES[k].name, Act("open_category", k - 1)>>]
                     \o << <<"MENU", Act("show_menu", 0)>> >>)
    /\ [][drawn' = <<>> => screen_buttons' = screen_buttons]_vars

\* The menu's second page is current after Next: its two buttons lead to
\* Contacts and Settings and are the ones just rendered.
C29_Witness ==
    /\ current_screen = SCREEN_MENU /\ menu_page = 1
    /\ fired = Some(Act("menu_next", 0))
    /\ drawn # <<>> /\ drawn[1].buttons = screen_buttons
    /\ screen_buttons[1].on_press = Act("show_contacts", 0)
    /\ screen_buttons[2].on_press = Act("show_settings", 0)

\* C30: a rising edge rejected by the 160 ms debounce is consumed: the press
\* is recorded as down, so no action fires for that press on any later
\* iteration however long the finger stays on the button; an action fires
\* only after the finger has been seen up, on a new rising edge more than the
\* debounce interval after the last accepted tap.
C30_RejectedEdgeConsumed ==
    [][/\ (~run_rejected /\ run_rejected') => was_down'
       /\ (run_rejected /\ touch_run # None /\ touch_run' # None) => fired' = None
       /\ fired' # None =>
              /\ ~was_down
              /\ tap_edge' # None
              /\ tap_edge'[1].accepted
              /\ tap_edge'[1].elapsed > TAP_DEBOUNCE_MS]_vars

====
